---- MODULE Spec2Model ----
(***************************************************************************)
(* Verification model of bolt-core (rust/bolt-core).                       *)
(*                                                                         *)
(* Bytes are integers 0..255, byte strings are sequences of bytes, text is *)
(* a sequence of ASCII codes.  A Result<T, BoltError> is a record with an  *)
(* ok flag: [ok |-> TRUE, val |-> v] or                                    *)
(* [ok |-> FALSE, kind |-> k, msg |-> m].                                  *)
(*                                                                         *)
(* The crate's own code (encoding.rs, crypto.rs, sas.rs, ...) is           *)
(* translated statement by statement.  The calls it makes into third-party *)
(* crates (base64, crypto_box, sha2, rand_core) are modelled by what those *)
(* libraries do at the call site:                                          *)
(*   - base64 STANDARD: RFC 4648, padded, canonical padding required,      *)
(*     non-zero trailing bits rejected;                                    *)
(*   - crypto_box: X25519 (RFC 7748 clamping of the secret, masking of the *)
(*     top bit of the public u-coordinate) over a scaled-down group, then  *)
(*     an authenticated stream cipher, tag(16) || body, whose decrypt      *)
(*     verifies the tag before it releases anything;                       *)
(*   - sha2: a scaled-down, order-sensitive 32-byte digest;                *)
(*   - OsRng: a nondeterministic choice from a bounded pool.               *)
(***************************************************************************)
EXTENDS Integers, Sequences, FiniteSets, TLC

\* sealing and opening between two peers (crypto.rs)
VARIABLES pc, keyA, keyB, plaintext, nonce, sealed,
          openMode, openText, openPk, openSk, opened

\* the short authentication string of two peers (sas.rs)
VARIABLES sasPc, idA, idB, ephA, ephB, sasA, sasB, sortIn, sortOut

\* the life of the key pairs one scope owns (crypto.rs, identity.rs)
VARIABLES kpLife, kpMem, kpBorn, kpWipes, kpDraws, kpExit, kpRead

\* calls of the codecs (encoding.rs)
VARIABLES cdOp, cdIn, cdMid, cdOut

\* peer codes: one generation, one validation (peer_code.rs); genByte is
\* -1 until a byte was taken
VARIABLES genPc, genKind, genResult, genBatch, genByte, genPushed, genCode,
          valIn, valOut

\* lookups in the wire error registry (errors.rs)
VARIABLES wireOp, wireIn, wireOut

\* reads of the crate's constants (lib.rs, constants.rs)
VARIABLES cnOp, cnModule, cnName, cnValue

\* calls of the transfer policy (transfer_policy/policy.rs)
VARIABLES polOp, polIn, polOut, polIn2, polOut2

\* a caller draining its pending list through decide
VARIABLES drOrig, drPending, drSched, drPar, drBudget, drLast

\* two calls of open_box_payload on one sealed text
VARIABLES erPc, erText, erFirst, erSecond

\* compute_sas called with its arguments rearranged
VARIABLES bdPc, bdKeys, bdSas, bdHashed

\* the buffers of one key pair generation (crypto.rs:48-57)
VARIABLES gnPc, gnFn, gnSecretBytes, gnSk, gnPk, gnKp, gnDrawn

boxVars == <<pc, keyA, keyB, plaintext, nonce, sealed,
             openMode, openText, openPk, openSk, opened>>

sasVars == <<sasPc, idA, idB, ephA, ephB, sasA, sasB, sortIn, sortOut>>

lifeVars == <<kpLife, kpMem, kpBorn, kpWipes, kpDraws, kpExit, kpRead>>

codecVars == <<cdOp, cdIn, cdMid, cdOut>>

peerVars == <<genPc, genKind, genResult, genBatch, genByte, genPushed,
              genCode, valIn, valOut>>

wireVars == <<wireOp, wireIn, wireOut>>

constVars == <<cnOp, cnModule, cnName, cnValue>>

policyVars == <<polOp, polIn, polOut, polIn2, polOut2>>

drainVars == <<drOrig, drPending, drSched, drPar, drBudget, drLast>>

errVars == <<erPc, erText, erFirst, erSecond>>

bindVars == <<bdPc, bdKeys, bdSas, bdHashed>>

genVars == <<gnPc, gnFn, gnSecretBytes, gnSk, gnPk, gnKp, gnDrawn>>

vars ==
    <<boxVars, sasVars, lifeVars, codecVars, peerVars, wireVars, constVars,
      policyVars, drainVars, errVars, bindVars, genVars>>

\* what the operations of one part leave alone
outsideBox ==
    <<sasVars, lifeVars, codecVars, peerVars, wireVars, constVars,
      policyVars, drainVars, errVars, bindVars, genVars>>

outsideSas ==
    <<boxVars, lifeVars, codecVars, peerVars, wireVars, constVars,
      policyVars, drainVars, errVars, bindVars, genVars>>

outsideLife ==
    <<boxVars, sasVars, codecVars, peerVars, wireVars, constVars,
      policyVars, drainVars, errVars, bindVars, genVars>>

outsideCodec ==
    <<boxVars, sasVars, lifeVars, peerVars, wireVars, constVars,
      policyVars, drainVars, errVars, bindVars, genVars>>

outsidePeer ==
    <<boxVars, sasVars, lifeVars, codecVars, wireVars, constVars,
      policyVars, drainVars, errVars, bindVars, genVars>>

outsideWire ==
    <<boxVars, sasVars, lifeVars, codecVars, peerVars, constVars,
      policyVars, drainVars, errVars, bindVars, genVars>>

outsideConst ==
    <<boxVars, sasVars, lifeVars, codecVars, peerVars, wireVars,
      policyVars, drainVars, errVars, bindVars, genVars>>

outsidePolicy ==
    <<boxVars, sasVars, lifeVars, codecVars, peerVars, wireVars, constVars,
      drainVars, errVars, bindVars, genVars>>

outsideDrain ==
    <<boxVars, sasVars, lifeVars, codecVars, peerVars, wireVars, constVars,
      policyVars, errVars, bindVars, genVars>>

outsideErr ==
    <<boxVars, sasVars, lifeVars, codecVars, peerVars, wireVars, constVars,
      policyVars, drainVars, bindVars, genVars>>

outsideBind ==
    <<boxVars, sasVars, lifeVars, codecVars, peerVars, wireVars, constVars,
      policyVars, drainVars, errVars, genVars>>

outsideGen ==
    <<boxVars, sasVars, lifeVars, codecVars, peerVars, wireVars, constVars,
      policyVars, drainVars, errVars, bindVars>>

---------------------------------------------------------------------------
(* constants.rs *)

NONCE_LENGTH == 24

SAS_LENGTH == 6

BOX_OVERHEAD == 16

---------------------------------------------------------------------------
(* Bounds of the model *)

\* longest plaintext sealed
MaxPlainLen == 2

\* longest raw byte string handed to open_box_payload as arbitrary text
MaxRawLen == 25

\* key pairs one scope declares
MaxSlots == 2

\* characters of the longest text handed to from_hex
MaxHexChars == 3

\* longest byte string of the codec round trips
MaxCodecLen == 3

\* alphabet characters of the longest text handed to is_valid_peer_code
MaxCodeLen == 9

\* longest list of pending chunk ids
MaxPending == 3

---------------------------------------------------------------------------
(* Byte helpers *)

Bit(x, i) == (x \div (2 ^ i)) % 2

Xor8(a, b) ==
    LET d(i) == (2 ^ i) * ((Bit(a, i) + Bit(b, i)) % 2)
    IN  d(0) + d(1) + d(2) + d(3) + d(4) + d(5) + d(6) + d(7)

Fill(n, v) == [i \in 1..n |-> v]

Take(s, n) == SubSeq(s, 1, n)

Drop(s, n) == SubSeq(s, n + 1, Len(s))

Ok(v) == [ok |-> TRUE, val |-> v]

Err(k, m) == [ok |-> FALSE, kind |-> k, msg |-> m]

---------------------------------------------------------------------------
(* encoding.rs : base64 *)

\* ASCII code of the base64 symbol for a 6-bit value (A-Z a-z 0-9 + /)
B64Char(v) ==
    IF v < 26 THEN 65 + v
    ELSE IF v < 52 THEN 97 + (v - 26)
    ELSE IF v < 62 THEN 48 + (v - 52)
    ELSE IF v = 62 THEN 43 ELSE 47

\* 6-bit value of an ASCII code, -1 when it is not a base64 symbol
B64Val(c) ==
    IF c >= 65 /\ c <= 90 THEN c - 65
    ELSE IF c >= 97 /\ c <= 122 THEN c - 97 + 26
    ELSE IF c >= 48 /\ c <= 57 THEN c - 48 + 52
    ELSE IF c = 43 THEN 62
    ELSE IF c = 47 THEN 63
    ELSE -1

PAD == 61

RECURSIVE to_base64(_)
to_base64(data) ==
    IF Len(data) = 0 THEN << >>
    ELSE IF Len(data) = 1 THEN
        << B64Char(data[1] \div 4), B64Char((data[1] % 4) * 16), PAD, PAD >>
    ELSE IF Len(data) = 2 THEN
        << B64Char(data[1] \div 4),
           B64Char((data[1] % 4) * 16 + data[2] \div 16),
           B64Char((data[2] % 16) * 4), PAD >>
    ELSE
        << B64Char(data[1] \div 4),
           B64Char((data[1] % 4) * 16 + data[2] \div 16),
           B64Char((data[2] % 16) * 4 + data[3] \div 64),
           B64Char(data[3] % 64) >> \o to_base64(Drop(data, 3))

\* the bytes of one full quad of symbols
QuadBytes(q) ==
    LET a == B64Val(q[1])  b == B64Val(q[2])
        c == B64Val(q[3])  d == B64Val(q[4])
    IN  << a * 4 + b \div 16, (b % 16) * 16 + c \div 4, (c % 4) * 64 + d >>

\* STANDARD.decode on the last quad, where padding may stand
LastQuad(q) ==
    LET a == B64Val(q[1])  b == B64Val(q[2])
        c == B64Val(q[3])  d == B64Val(q[4])
    IN  IF a < 0 \/ b < 0 THEN
            Err("Encoding", <<"invalid base64", "InvalidByte">>)
        ELSE IF q[3] = PAD /\ q[4] = PAD THEN
            IF b % 16 # 0
            THEN Err("Encoding", <<"invalid base64", "InvalidLastSymbol">>)
            ELSE Ok(<< a * 4 + b \div 16 >>)
        ELSE IF c < 0 THEN
            Err("Encoding", <<"invalid base64", "InvalidByte">>)
        ELSE IF q[4] = PAD THEN
            IF c % 4 # 0
            THEN Err("Encoding", <<"invalid base64", "InvalidLastSymbol">>)
            ELSE Ok(<< a * 4 + b \div 16, (b % 16) * 16 + c \div 4 >>)
        ELSE IF d < 0 THEN
            Err("Encoding", <<"invalid base64", "InvalidByte">>)
        ELSE Ok(QuadBytes(q))

RECURSIVE DecodeQuads(_)
DecodeQuads(text) ==
    IF Len(text) = 0 THEN Ok(<< >>)
    ELSE IF Len(text) = 4 THEN LastQuad(text)
    ELSE
        LET q == Take(text, 4)
        IN  IF \E i \in 1..4 : B64Val(q[i]) < 0
            THEN Err("Encoding", <<"invalid base64", "InvalidByte">>)
            ELSE LET rest == DecodeQuads(Drop(text, 4))
                 IN  IF rest.ok THEN Ok(QuadBytes(q) \o rest.val) ELSE rest

from_base64(encoded) ==
    IF Len(encoded) % 4 # 0
    THEN IF \E i \in 1..Len(encoded) :
               B64Val(encoded[i]) < 0 /\ encoded[i] # PAD
         THEN Err("Encoding", <<"invalid base64", "InvalidByte">>)
         ELSE Err("Encoding", <<"invalid base64", "InvalidPadding">>)
    ELSE DecodeQuads(encoded)

---------------------------------------------------------------------------
(* crypto_box as called from crypto.rs: X25519 over a scaled-down group.   *)
(* The group is the multiplicative group modulo 23 (order 22 = cofactor 2  *)
(* times the prime 11); the base point 2 generates the subgroup of order   *)
(* 11.  Secret and public keys keep their 32-byte encodings.               *)

\* RFC 7748 clamping, as SecretKey::from applies it to the 32 secret bytes
Clamp(sk) ==
    [i \in 1..32 |->
        IF i = 1 THEN sk[1] - (sk[1] % 8)
        ELSE IF i = 32 THEN (sk[32] % 64) + 64
        ELSE sk[i]]

\* little-endian value of the bytes b[i..32], modulo m
RECURSIVE LEMod(_, _, _)
LEMod(b, i, m) ==
    IF i > 32 THEN 0 ELSE (b[i] + 256 * LEMod(b, i + 1, m)) % m

\* the clamped scalar, modulo the order of the group
Scalar(sk) == LEMod(Clamp(sk), 1, 22)

\* the u-coordinate a 32-byte public key decodes to: the top bit is masked
\* and the value is reduced modulo the field prime
DecodeU(pk) ==
    LET masked == [i \in 1..32 |-> IF i = 32 THEN pk[32] % 128 ELSE pk[i]]
    IN  LEMod(masked, 1, 23)

RECURSIVE PowMod(_, _)
PowMod(u, e) == IF e = 0 THEN 1 ELSE (u * PowMod(u, e - 1)) % 23

EncodeU(u) == [i \in 1..32 |-> IF i = 1 THEN u ELSE 0]

\* sk.public_key(): the scalar times the base point
PublicOf(sk) == EncodeU(PowMod(2, Scalar(sk)))

\* SalsaBox::new(pk, sk): the shared key of the box
SharedKey(pk, sk) ==
    LET u == DecodeU(pk)
    IN  IF u = 0 THEN 0 ELSE PowMod(u, Scalar(sk))

---------------------------------------------------------------------------
(* crypto_box as called from crypto.rs: the authenticated cipher.          *)
(* encrypt gives tag(16) || body with Len(body) = Len(plaintext); decrypt  *)
(* recomputes the tag over the body it was given and compares it with the  *)
(* tag it was given before it produces any plaintext.  The tag is a        *)
(* polynomial checksum with odd weights, so that it changes with every     *)
(* bit of the body, with the nonce and with the key.                       *)

RECURSIVE WSum(_, _)
WSum(s, i) ==
    IF i > Len(s) THEN 0 ELSE ((2 * i + 1) * s[i] + WSum(s, i + 1)) % 256

KeyStream(k, n, i) == (29 * k + 3 * WSum(n, 1) + 57 * i + 11) % 256

Body(k, n, p) == [i \in 1..Len(p) |-> Xor8(p[i], KeyStream(k, n, i))]

Tag(k, n, body) ==
    [j \in 1..BOX_OVERHEAD |->
        (WSum(body, 1) + j * k + WSum(n, 1) + Len(body) + 7 * j) % 256]

\* salsa_box.encrypt(nonce, plaintext)
Encrypt(k, n, p) ==
    LET body == Body(k, n, p) IN Ok(Tag(k, n, body) \o body)

\* salsa_box.decrypt(nonce, ciphertext): Err(aead::Error) unless the tag
\* verifies
Decrypt(k, n, ct) ==
    IF Len(ct) < BOX_OVERHEAD THEN [ok |-> FALSE]
    ELSE LET tag  == Take(ct, BOX_OVERHEAD)
             body == Drop(ct, BOX_OVERHEAD)
         IN  IF tag # Tag(k, n, body) THEN [ok |-> FALSE]
             ELSE Ok(Body(k, n, body))

---------------------------------------------------------------------------
(* crypto.rs *)

\* generate_ephemeral_keypair, secret_bytes being what OsRng filled in
generate_ephemeral_keypair(secret_bytes) ==
    [public_key |-> PublicOf(secret_bytes), secret_key |-> secret_bytes]

\* the error open_box_payload propagates with `?` from from_base64
DecodeErr(e) == Err(e.kind, e.msg)

\* a failed decrypt turned into an empty success (unwrap_or_default)
DecryptErr_Default == Ok(<< >>)

\* a failed decrypt reported under another kind
DecryptErr_Integrity == Err("Integrity", "Decryption failed")

\* the error open_box_payload makes of a failed decrypt
DecryptErr == Err("Encryption", "Decryption failed")

\* the error open_box_payload makes of a decoding shorter than the nonce
ShortErr == Err("Encryption", "Sealed payload too short")

\* the nonce left out of the wire value
seal_box_payload_NoNonce(p, remote_public_key, sender_secret_key, nonce_bytes) ==
    LET k  == SharedKey(remote_public_key, sender_secret_key)
        ct == Encrypt(k, nonce_bytes, p)
    IN  IF ~ct.ok THEN Err("Encryption", "Encryption failed")
        ELSE Ok(to_base64(ct.val))

\* seal_box_payload, nonce_bytes being what OsRng filled in
seal_box_payload(p, remote_public_key, sender_secret_key, nonce_bytes) ==
    LET k  == SharedKey(remote_public_key, sender_secret_key)
        ct == Encrypt(k, nonce_bytes, p)
    IN  IF ~ct.ok THEN Err("Encryption", "Encryption failed")
        ELSE Ok(to_base64(nonce_bytes \o ct.val))

\* the split taken at the tag length
SplitAt_Tag == BOX_OVERHEAD

\* where open_box_payload splits the decoded bytes
SplitAt == NONCE_LENGTH

\* the length check left out: slicing a shorter decoding panics
open_box_payload_NoLengthCheck(text, sender_public_key, receiver_secret_key) ==
    LET data == from_base64(text)
    IN  IF ~data.ok THEN Err(data.kind, data.msg)
        ELSE IF Len(data.val) < NONCE_LENGTH
             THEN Err("panic", "range end index out of range")
        ELSE LET n  == Take(data.val, NONCE_LENGTH)
                 ct == Drop(data.val, NONCE_LENGTH)
                 k  == SharedKey(sender_public_key, receiver_secret_key)
                 r  == Decrypt(k, n, ct)
             IN  IF r.ok THEN r ELSE Err("Encryption", "Decryption failed")

\* the sender's key checked for the all-zero value before the decrypt
open_box_payload_RejectZeroKey(text, sender_public_key, receiver_secret_key) ==
    LET data == from_base64(text)
    IN  IF ~data.ok THEN DecodeErr(data)
        ELSE IF Len(data.val) < NONCE_LENGTH THEN ShortErr
        ELSE IF sender_public_key = Fill(32, 0)
             THEN Err("Encryption", "Invalid public key")
        ELSE LET n  == Take(data.val, SplitAt)
                 ct == Drop(data.val, SplitAt)
                 k  == SharedKey(sender_public_key, receiver_secret_key)
                 r  == Decrypt(k, n, ct)
             IN  IF r.ok THEN r ELSE DecryptErr

open_box_payload(text, sender_public_key, receiver_secret_key) ==
    LET data == from_base64(text)
    IN  IF ~data.ok THEN DecodeErr(data)
        ELSE IF Len(data.val) < NONCE_LENGTH THEN ShortErr
        ELSE LET n  == Take(data.val, SplitAt)
                 ct == Drop(data.val, SplitAt)
                 k  == SharedKey(sender_public_key, receiver_secret_key)
                 r  == Decrypt(k, n, ct)
             IN  IF r.ok THEN r ELSE DecryptErr

---------------------------------------------------------------------------
(* What the callers and OsRng can supply, bounded *)

\* a 32-byte secret with the given first and last byte
Secret(f, l) ==
    [i \in 1..32 |-> IF i = 1 THEN f ELSE IF i = 32 THEN l ELSE 3]

\* outcomes of OsRng.fill_bytes(&mut secret_bytes)
SecretPool == { Secret(8, 64), Secret(16, 65) }

\* secret keys a caller may pass to open_box_payload: 8 and 9 differ in a
\* bit that clamping clears, 64 and 192 in the top bit, which it clears too
AnySecret ==
    SecretPool \cup { Secret(9, 64), Secret(8, 192), Secret(240, 127) }

\* public keys a caller may pass to open_box_payload: the generated ones,
\* each also with the top bit of its last byte set, and the all-zero key
AnyPublic ==
    { PublicOf(sk) : sk \in SecretPool }
        \cup { [PublicOf(sk) EXCEPT ![32] = 128] : sk \in SecretPool }
        \cup { Fill(32, 0) }

\* outcomes of OsRng.fill_bytes(&mut nonce_bytes)
NoncePool == { Fill(NONCE_LENGTH, 0), [i \in 1..NONCE_LENGTH |-> (i * 37) % 256] }

PlainBytes == { 0, 255 }

RECURSIVE SeqsUpTo(_, _)
SeqsUpTo(S, n) ==
    IF n = 0 THEN { << >> }
    ELSE LET shorter == SeqsUpTo(S, n - 1)
         IN  shorter \cup { Append(q, x) : q \in { r \in shorter : Len(r) = n - 1 }, x \in S }

Plaintexts == SeqsUpTo(PlainBytes, MaxPlainLen)

\* "!!!!", "QQ" (unpadded), "QR==" (trailing bits), "Q=Q=" (padding inside)
InvalidTexts ==
    { <<33, 33, 33, 33>>, <<81, 81>>, <<81, 82, 61, 61>>, <<81, 61, 81, 61>> }

\* text a caller may pass to open_box_payload: encodings of short byte
\* strings, and text that is not base64
AnyText ==
    { to_base64(Fill(n, v)) : n \in 0..MaxRawLen, v \in { 0, 171 } }
        \cup InvalidTexts

FlipByte(b, bit) == IF Bit(b, bit) = 1 THEN b - 2 ^ bit ELSE b + 2 ^ bit

\* decode, flip one bit of the byte at index idx (from 1), encode again
FlipBit(text, idx, bit) ==
    LET raw == from_base64(text).val
    IN  to_base64([raw EXCEPT ![idx] = FlipByte(@, bit)])

---------------------------------------------------------------------------
(* Sealing and opening between two peers *)

None == << >>

BoxInit ==
    /\ pc = "start"
    /\ keyA = None /\ keyB = None
    /\ plaintext = None /\ nonce = None /\ sealed = None
    /\ openMode = "none" /\ openText = None
    /\ openPk = None /\ openSk = None /\ opened = None

SasIdle ==
    /\ sasPc = "idle"
    /\ idA = None /\ idB = None /\ ephA = None /\ ephB = None
    /\ sasA = None /\ sasB = None /\ sortIn = None /\ sortOut = None

LifeIdle ==
    /\ kpLife = None /\ kpMem = None /\ kpBorn = None /\ kpWipes = None
    /\ kpDraws = 0 /\ kpExit = "idle" /\ kpRead = None

CodecIdle ==
    /\ cdOp = "idle" /\ cdIn = None /\ cdMid = None /\ cdOut = None

PeerIdle ==
    /\ genPc = "idle" /\ genKind = None /\ genResult = None /\ genBatch = 0
    /\ genByte = -1 /\ genPushed = None /\ genCode = None
    /\ valIn = None /\ valOut = None

WireIdle ==
    /\ wireOp = "idle" /\ wireIn = None /\ wireOut = None

ConstIdle ==
    /\ cnOp = "idle" /\ cnModule = None /\ cnName = None /\ cnValue = None

PolicyIdle ==
    /\ polOp = "idle" /\ polIn = None /\ polOut = None /\ polIn2 = None
    /\ polOut2 = None

DrainIdle ==
    /\ drOrig = None /\ drPending = None /\ drSched = None /\ drPar = 0
    /\ drBudget = 0 /\ drLast = None

ErrIdle ==
    /\ erPc = "idle" /\ erText = None /\ erFirst = None /\ erSecond = None

BindIdle ==
    /\ bdPc = "idle" /\ bdKeys = None /\ bdSas = None /\ bdHashed = None

GenIdle ==
    /\ gnPc = "idle" /\ gnFn = None /\ gnSecretBytes = None /\ gnSk = None
    /\ gnPk = None /\ gnKp = None /\ gnDrawn = None

Init ==
    /\ BoxInit /\ SasIdle /\ LifeIdle /\ CodecIdle /\ PeerIdle /\ WireIdle
    /\ ConstIdle /\ PolicyIdle /\ DrainIdle /\ ErrIdle /\ BindIdle
    /\ GenIdle

GenerateAlice ==
    /\ pc = "start"
    /\ \E secret_bytes \in SecretPool :
          keyA' = generate_ephemeral_keypair(secret_bytes)
    /\ pc' = "alice"
    /\ UNCHANGED <<keyB, plaintext, nonce, sealed,
                   openMode, openText, openPk, openSk, opened>>
    /\ UNCHANGED outsideBox

GenerateBob ==
    /\ pc = "alice"
    /\ \E secret_bytes \in SecretPool :
          keyB' = generate_ephemeral_keypair(secret_bytes)
    /\ pc' = "keys"
    /\ UNCHANGED <<keyA, plaintext, nonce, sealed,
                   openMode, openText, openPk, openSk, opened>>
    /\ UNCHANGED outsideBox

\* Alice seals p for Bob
Seal ==
    /\ pc = "keys"
    /\ \E p \in Plaintexts, nonce_bytes \in NoncePool :
          /\ plaintext' = p
          /\ nonce' = nonce_bytes
          /\ sealed' = seal_box_payload(p, keyB.public_key, keyA.secret_key,
                                        nonce_bytes)
    /\ pc' = "sealed"
    /\ UNCHANGED <<keyA, keyB, openMode, openText, openPk, openSk, opened>>
    /\ UNCHANGED outsideBox

Open(mode, text, pk, sk) ==
    /\ openMode' = mode
    /\ openText' = text
    /\ openPk' = pk
    /\ openSk' = sk
    /\ opened' = open_box_payload(text, pk, sk)
    /\ pc' = "opened"
    /\ UNCHANGED <<keyA, keyB, plaintext, nonce, sealed>>
    /\ UNCHANGED outsideBox

\* Bob opens what Alice sealed
OpenCorrect ==
    /\ pc = "sealed" /\ sealed.ok
    /\ Open("correct", sealed.val, keyA.public_key, keyB.secret_key)

\* Bob opens it after one bit of the ciphertext region was flipped
OpenTampered ==
    /\ pc = "sealed" /\ sealed.ok
    /\ \E off \in 1..(Len(plaintext) + BOX_OVERHEAD), bit \in 0..7 :
          Open("tampered", FlipBit(sealed.val, NONCE_LENGTH + off, bit),
               keyA.public_key, keyB.secret_key)

\* it is opened with another receiver secret key
OpenWrongSecret ==
    /\ pc = "sealed" /\ sealed.ok
    /\ \E sk \in AnySecret \ { keyB.secret_key } :
          Open("wrong_secret", sealed.val, keyA.public_key, sk)

\* it is opened with another sender public key
OpenWrongPublic ==
    /\ pc = "sealed" /\ sealed.ok
    /\ \E pk \in AnyPublic \ { keyA.public_key } :
          Open("wrong_public", sealed.val, pk, keyB.secret_key)

\* any text is opened with any keys
OpenText ==
    /\ pc = "start"
    /\ \E text \in AnyText, pk \in AnyPublic, sk \in AnySecret :
          Open("text", text, pk, sk)

Next ==
    \/ GenerateAlice
    \/ GenerateBob
    \/ Seal
    \/ OpenCorrect
    \/ OpenTampered
    \/ OpenWrongSecret
    \/ OpenWrongPublic
    \/ OpenText

Spec == Init /\ [][Next]_vars

---------------------------------------------------------------------------
(* Claims about seal_box_payload and open_box_payload *)

Failed(r, kind) == ~r.ok /\ r.kind = kind

C2_TamperRejected ==
    openMode = "tampered" => Failed(opened, "Encryption")

C2_Witness ==
    /\ openMode = "tampered" /\ Failed(opened, "Encryption")
    /\ Len(plaintext) > 0
    /\ Drop(from_base64(openText).val, NONCE_LENGTH + BOX_OVERHEAD)
          # Drop(from_base64(sealed.val).val, NONCE_LENGTH + BOX_OVERHEAD)

\* C3: every failure of open_box_payload has the kind Encryption.
C3_OnlyEncryptionErrors ==
    (pc = "opened" /\ ~opened.ok) => opened.kind = "Encryption"

\* C4: text that decodes to at most 24 bytes is rejected with an Encryption
\* error, for any keys.
C4_ShortRejected ==
    (/\ openMode = "text"
     /\ from_base64(openText).ok
     /\ Len(from_base64(openText).val) <= NONCE_LENGTH)
        => Failed(opened, "Encryption")

C4_Witness ==
    /\ openMode = "text" /\ from_base64(openText).ok
    /\ Len(from_base64(openText).val) = NONCE_LENGTH
    /\ Failed(opened, "Encryption")

\* C5 as stated: opening with any other receiver secret key, or any other
\* sender public key, fails with an Encryption error.
C5_AnyOtherKeyRejected ==
    openMode \in { "wrong_secret", "wrong_public" }
        => Failed(opened, "Encryption")

\* C5 as amended: opening with another key fails with an Encryption error
\* whenever that key gives the box another shared key than the one the
\* payload was sealed under.
C5_OtherSharedKeyRejected ==
    (/\ openMode \in { "wrong_secret", "wrong_public" }
     /\ SharedKey(openPk, openSk)
           # SharedKey(keyB.public_key, keyA.secret_key))
        => Failed(opened, "Encryption")

C5_Witness ==
    /\ openMode = "wrong_secret" /\ Failed(opened, "Encryption")
    /\ PublicOf(openSk) # keyB.public_key

\* C6: seal_box_payload returns standard base64 text that decodes to
\* 24 + Len(plaintext) + 16 bytes, the first 24 being the nonce drawn.
C6_WireLength ==
    pc \in { "sealed", "opened" } /\ openMode # "text" =>
        /\ sealed.ok
        /\ \A i \in 1..Len(sealed.val) :
              B64Val(sealed.val[i]) >= 0 \/ sealed.val[i] = PAD
        /\ Len(sealed.val) % 4 = 0
        /\ from_base64(sealed.val).ok
        /\ Len(from_base64(sealed.val).val)
              = NONCE_LENGTH + Len(plaintext) + BOX_OVERHEAD
        /\ Take(from_base64(sealed.val).val, NONCE_LENGTH) = nonce

C6_Witness ==
    /\ pc = "sealed" /\ sealed.ok /\ Len(plaintext) = 1
    /\ nonce # Fill(NONCE_LENGTH, 0)
    /\ Len(from_base64(sealed.val).val) = 41

---------------------------------------------------------------------------
(* encoding.rs : hex *)

\* ASCII code of the lowercase hex digit of a 4-bit value
HexLower(v) == IF v < 10 THEN 48 + v ELSE 97 + (v - 10)

\* format!("{b:02x}"): two lowercase digits, zero-padded
Hex02x(b) == << HexLower(b \div 16), HexLower(b % 16) >>

\* format!("{b:x}"): no zero padding
RECURSIVE HexFrom_NoPad(_, _)
HexFrom_NoPad(data, i) ==
    IF i > Len(data) THEN << >>
    ELSE (IF data[i] < 16 THEN << HexLower(data[i]) >> ELSE Hex02x(data[i]))
             \o HexFrom_NoPad(data, i + 1)

to_hex_NoPad(data) == HexFrom_NoPad(data, 1)

RECURSIVE HexFrom(_, _)
HexFrom(data, i) ==
    IF i > Len(data) THEN << >> ELSE Hex02x(data[i]) \o HexFrom(data, i + 1)

to_hex(data) == HexFrom(data, 1)

\* str::to_uppercase, on UTF-8 bytes.  ASCII letters a-z lose 32; of the
\* characters beyond ASCII the texts of the model hold U+017F (long s,
\* bytes c5 bf), whose uppercase is "S", and U+FB00 (ligature ff, bytes
\* ef ac 80), whose uppercase is "FF"; every other byte is kept.
RECURSIVE UpperFrom(_, _)
UpperFrom(text, i) ==
    IF i > Len(text) THEN << >>
    ELSE IF i + 1 <= Len(text) /\ text[i] = 197 /\ text[i + 1] = 191
         THEN <<83>> \o UpperFrom(text, i + 2)
    ELSE IF i + 2 <= Len(text) /\ text[i] = 239 /\ text[i + 1] = 172
            /\ text[i + 2] = 128
         THEN <<70, 70>> \o UpperFrom(text, i + 3)
    ELSE IF text[i] >= 97 /\ text[i] <= 122
         THEN <<text[i] - 32>> \o UpperFrom(text, i + 1)
    ELSE <<text[i]>> \o UpperFrom(text, i + 1)

to_uppercase(text) == UpperFrom(text, 1)

---------------------------------------------------------------------------
(* hash.rs : the digest of the sha2 crate, scaled down.  It maps a byte    *)
(* string to 32 bytes and depends on every byte and on its position.       *)

\* the state after data[lo..hi], the two halves combined asymmetrically
RECURSIVE Absorb(_, _, _)
Absorb(data, lo, hi) ==
    IF lo = hi THEN (31 * data[lo] + 7 * lo + 1) % 65521
    ELSE LET mid == (lo + hi) \div 2
         IN  (257 * Absorb(data, lo, mid) + 3 * Absorb(data, mid + 1, hi) + 11)
                 % 65521

sha256(data) ==
    LET h == IF Len(data) = 0 THEN 5381 ELSE Absorb(data, 1, Len(data))
    IN  [j \in 1..32 |-> ((h * (2 * j + 1)) \div 16 + 7 * j) % 256]

---------------------------------------------------------------------------
(* sas.rs *)

\* the loop of sort32 from index i on: the first index where a and b differ
\* decides; past the last index the keys are identical
RECURSIVE Sort32From(_, _, _)
Sort32From(a, b, i) ==
    IF i > 32 THEN a \o b
    ELSE IF a[i] # b[i] THEN (IF a[i] < b[i] THEN a \o b ELSE b \o a)
    ELSE Sort32From(a, b, i + 1)

\* the keys concatenated as given
sort32_NoSort(a, b) == a \o b

\* the bytes compared as signed (i8)
sort32_Signed(a, b) ==
    LET sgn(x) == IF x >= 128 THEN x - 256 ELSE x
    IN  IF \E i \in 1..32 :
              sgn(b[i]) < sgn(a[i]) /\ \A j \in 1..(i - 1) : a[j] = b[j]
        THEN b \o a ELSE a \o b

sort32(a, b) == Sort32From(a, b, 1)

\* the ephemeral keys hashed in the order given
compute_sas_EphemeralAsGiven(identity_a, identity_b, ephemeral_a, ephemeral_b) ==
    LET sorted_identity  == sort32(identity_a, identity_b)
        combined == sorted_identity \o (ephemeral_a \o ephemeral_b)
        hash == sha256(combined)
        hex  == to_hex(hash)
    IN  to_uppercase(Take(hex, SAS_LENGTH))

compute_sas(identity_a, identity_b, ephemeral_a, ephemeral_b) ==
    LET sorted_identity  == sort32(identity_a, identity_b)
        sorted_ephemeral == sort32(ephemeral_a, ephemeral_b)
        combined == sorted_identity \o sorted_ephemeral
        hash == sha256(combined)
        hex  == to_hex(hash)
    IN  to_uppercase(Take(hex, SAS_LENGTH))

---------------------------------------------------------------------------
(* Two peers that exchanged identity and ephemeral public keys *)

\* a 32-byte key with the given bytes at indices 1, 16 and 32
Key(f, m, l) ==
    [i \in 1..32 |->
        IF i = 1 THEN f ELSE IF i = 16 THEN m ELSE IF i = 32 THEN l ELSE 0]

\* keys that first differ at the first, a middle or the last index, with
\* bytes on both sides of 128 and later bytes ordered the other way
KeyPool ==
    { Key(0, 0, 0), Key(0, 0, 200), Key(0, 1, 200), Key(0, 200, 1),
      Key(200, 0, 0) }

SasInit ==
    /\ BoxInit /\ LifeIdle /\ CodecIdle /\ PeerIdle /\ WireIdle
    /\ ConstIdle /\ PolicyIdle /\ DrainIdle /\ ErrIdle /\ BindIdle
    /\ GenIdle
    /\ sasPc = "exchanged"
    /\ idA \in KeyPool /\ idB \in KeyPool
    /\ ephA \in KeyPool /\ ephB \in KeyPool
    /\ sasA = None /\ sasB = None /\ sortIn = None /\ sortOut = None

\* peer A computes the SAS with its own keys first
PeerACompute ==
    /\ sasPc = "exchanged" /\ sasA = None
    /\ sasA' = compute_sas(idA, idB, ephA, ephB)
    /\ UNCHANGED <<sasPc, idA, idB, ephA, ephB, sasB, sortIn, sortOut>>
    /\ UNCHANGED outsideSas

\* peer B computes the SAS with its own keys first
PeerBCompute ==
    /\ sasPc = "exchanged" /\ sasB = None
    /\ sasB' = compute_sas(idB, idA, ephB, ephA)
    /\ UNCHANGED <<sasPc, idA, idB, ephA, ephB, sasA, sortIn, sortOut>>
    /\ UNCHANGED outsideSas

\* one call of sort32 on a pair of the exchanged keys, in either order
Sort32Call ==
    /\ sasPc = "exchanged" /\ sasA = None /\ sasB = None
    /\ \E pair \in { <<idA, idB>>, <<idB, idA>>, <<ephA, ephB>>, <<ephB, ephA>> } :
          /\ sortIn' = pair
          /\ sortOut' = sort32(pair[1], pair[2])
    /\ sasPc' = "sorted"
    /\ UNCHANGED <<idA, idB, ephA, ephB, sasA, sasB>>
    /\ UNCHANGED outsideSas

SasNext ==
    \/ PeerACompute
    \/ PeerBCompute
    \/ Sort32Call

SpecSas == SasInit /\ [][SasNext]_vars

---------------------------------------------------------------------------
(* Claims about the short authentication string *)

\* a is before b in the lexicographic order of unsigned bytes
LexLess(a, b) ==
    \E i \in 1..32 : a[i] < b[i] /\ \A j \in 1..(i - 1) : a[j] = b[j]

\* the smaller key first; identical keys in the given order
Sorted64(a, b) == IF LexLess(b, a) THEN b \o a ELSE a \o b

\* the i-th uppercase hex digit of a byte string
UpperHexDigit(d, i) ==
    LET byte == d[(i + 1) \div 2]
        v    == IF i % 2 = 1 THEN byte \div 16 ELSE byte % 16
    IN  IF v < 10 THEN 48 + v ELSE 65 + (v - 10)

\* C8: the two peers, each calling compute_sas with its own keys first,
\* obtain the same string.
C8_SasCommutes ==
    (sasA # None /\ sasB # None) => sasA = sasB

C8_Witness ==
    /\ sasA # None /\ sasB # None /\ sasA = sasB
    /\ idA # idB /\ ephA # ephB /\ LexLess(idB, idA) /\ LexLess(ephA, ephB)

\* C9: compute_sas returns the first 6 hex digits, uppercase, of the digest
\* of sort32(identities) followed by sort32(ephemerals): exactly 6
\* characters, each in 0-9 or A-F.
C9_SasIsReference ==
    sasA # None =>
        /\ Len(sasA) = 6
        /\ \A i \in 1..Len(sasA) :
              (sasA[i] >= 48 /\ sasA[i] <= 57) \/ (sasA[i] >= 65 /\ sasA[i] <= 70)
        /\ LET digest == sha256(Sorted64(idA, idB) \o Sorted64(ephA, ephB))
           IN  sasA = [i \in 1..6 |-> UpperHexDigit(digest, i)]

C9_Witness ==
    /\ sasA # None /\ Len(sasA) = 6
    /\ \E i \in 1..6 : sasA[i] >= 65
    /\ sasA[1] = 48
    /\ LexLess(idB, idA)

\* C10: sort32(a, b) is the 64 bytes of the lexicographically smaller key
\* followed by the larger, a then b when they are identical, and the same
\* for (b, a).
C10_Sort32Ordering ==
    sasPc = "sorted" =>
        LET a == sortIn[1]
            b == sortIn[2]
        IN  /\ Len(sortOut) = 64
            /\ sortOut = Sorted64(a, b)
            /\ (a = b => sortOut = a \o b)
            /\ sortOut = sort32(b, a)

C10_Witness ==
    /\ sasPc = "sorted" /\ sortOut = sortIn[2] \o sortIn[1]
    /\ sortIn[1][1] = sortIn[2][1]
    /\ sortIn[1][32] < sortIn[2][32]

---------------------------------------------------------------------------
(* crypto.rs, identity.rs: the life of a KeyPair                           *)
(*                                                                         *)
(* One scope owns up to MaxSlots key pairs, each in its own storage (the   *)
(* struct holds both arrays by value).  A slot is "unborn", then "live",   *)
(* then "dropped" once Drop::drop has run on it, then "released" once its  *)
(* storage was given back.  Rust runs the drop glue of every live local    *)
(* when the scope is left, whichever way it is left.                       *)

Slots == 1..MaxSlots

Zero32 == Fill(32, 0)

generate_identity_keypair_RawPublic(secret_bytes) ==
    [public_key |-> secret_bytes, secret_key |-> secret_bytes]

\* identity.rs: generate_identity_keypair() is generate_ephemeral_keypair()
generate_identity_keypair(secret_bytes) ==
    generate_ephemeral_keypair(secret_bytes)

\* #[derive(Clone)]: both arrays are copied into the clone's own storage
KeyPair_clone(self) ==
    [public_key |-> [i \in 1..32 |-> self.public_key[i]],
     secret_key |-> [i \in 1..32 |-> self.secret_key[i]]]

KeyPair_drop_SkipLast(self) ==
    [self EXCEPT !.secret_key = [i \in 1..32 |-> IF i < 32 THEN 0 ELSE @[i]]]

\* impl Drop for KeyPair: write_volatile(byte, 0) for every byte of
\* secret_key, then the fence; public_key is not touched
KeyPair_drop(self) ==
    [self EXCEPT !.secret_key = [i \in 1..32 |-> 0]]

DropIn_Shared(mem, s) ==
    [t \in DOMAIN mem |->
        IF mem[t] # None /\ mem[t].secret_key = mem[s].secret_key
        THEN KeyPair_drop(mem[t]) ELSE mem[t]]

\* the drop glue of the key pair stored in slot s
DropIn(mem, s) == [mem EXCEPT ![s] = KeyPair_drop(@)]

\* the drop glue of a scope: its live locals, last declared first
RECURSIVE DropLocals(_, _, _)
DropLocals(mem, life, s) ==
    IF s = 0 THEN mem
    ELSE DropLocals(IF life[s] = "live" THEN DropIn(mem, s) ELSE mem,
                    life, s - 1)

LifeInit ==
    /\ BoxInit /\ SasIdle /\ CodecIdle /\ PeerIdle /\ WireIdle /\ ConstIdle
    /\ PolicyIdle /\ DrainIdle /\ ErrIdle /\ BindIdle /\ GenIdle
    /\ kpLife = [s \in Slots |-> "unborn"]
    /\ kpMem = [s \in Slots |-> None]
    /\ kpBorn = [s \in Slots |-> None]
    /\ kpWipes = [s \in Slots |-> 0]
    /\ kpDraws = 0
    /\ kpExit = "running"
    /\ kpRead = None

\* the next local the scope declares
FreeSlot(s) ==
    /\ kpLife[s] = "unborn"
    /\ \A t \in 1..(s - 1) : kpLife[t] # "unborn"

Bind(s, fn, kp) ==
    /\ kpMem' = [kpMem EXCEPT ![s] = kp]
    /\ kpLife' = [kpLife EXCEPT ![s] = "live"]
    /\ kpBorn' = [kpBorn EXCEPT ![s] = [fn |-> fn, pair |-> kp]]

\* let kp = generate_ephemeral_keypair();  OsRng fills secret_bytes once
GenerateEphemeral ==
    /\ kpExit = "running"
    /\ \E s \in Slots, secret_bytes \in SecretPool :
          /\ FreeSlot(s)
          /\ Bind(s, "generate_ephemeral_keypair",
                  generate_ephemeral_keypair(secret_bytes))
    /\ kpDraws' = kpDraws + 1
    /\ UNCHANGED <<kpWipes, kpExit, kpRead>>
    /\ UNCHANGED outsideLife

\* let kp = generate_identity_keypair();
GenerateIdentity ==
    /\ kpExit = "running"
    /\ \E s \in Slots, secret_bytes \in SecretPool :
          /\ FreeSlot(s)
          /\ Bind(s, "generate_identity_keypair",
                  generate_identity_keypair(secret_bytes))
    /\ kpDraws' = kpDraws + 1
    /\ UNCHANGED <<kpWipes, kpExit, kpRead>>
    /\ UNCHANGED outsideLife

\* let kp2 = kp.clone();
CloneKp ==
    /\ kpExit = "running"
    /\ \E src \in Slots, dst \in Slots :
          /\ kpLife[src] = "live"
          /\ FreeSlot(dst)
          /\ Bind(dst, "clone", KeyPair_clone(kpMem[src]))
    /\ UNCHANGED <<kpWipes, kpDraws, kpExit, kpRead>>
    /\ UNCHANGED outsideLife

\* a read of both fields of a live key pair
ReadKp ==
    /\ kpExit = "running"
    /\ \E s \in Slots :
          /\ kpLife[s] = "live"
          /\ kpRead' = [slot |-> s, pair |-> kpMem[s]]
    /\ UNCHANGED <<kpLife, kpMem, kpBorn, kpWipes, kpDraws, kpExit>>
    /\ UNCHANGED outsideLife

\* drop(kp): the end of life of one key pair, in any order
DropKp ==
    /\ kpExit = "running"
    /\ \E s \in Slots :
          /\ kpLife[s] = "live"
          /\ kpMem' = DropIn(kpMem, s)
          /\ kpLife' = [kpLife EXCEPT ![s] = "dropped"]
          /\ kpWipes' = [kpWipes EXCEPT ![s] = @ + 1]
    /\ UNCHANGED <<kpBorn, kpDraws, kpExit, kpRead>>
    /\ UNCHANGED outsideLife

\* the scope is left: every local still live is dropped
ExitScope(how) ==
    /\ kpExit = "running"
    /\ kpExit' = how
    /\ kpMem' = DropLocals(kpMem, kpLife, MaxSlots)
    /\ kpLife' = [s \in Slots |-> IF kpLife[s] = "live" THEN "dropped"
                                  ELSE kpLife[s]]
    /\ kpWipes' = [s \in Slots |-> IF kpLife[s] = "live" THEN kpWipes[s] + 1
                                   ELSE kpWipes[s]]
    /\ UNCHANGED <<kpBorn, kpDraws, kpRead>>
    /\ UNCHANGED outsideLife

\* the end of the body is reached
Return ==
    /\ \A s \in Slots : kpLife[s] # "unborn"
    /\ ExitScope("return")

\* return (or `?`) before the end of the body
EarlyReturn ==
    /\ \E s \in Slots : kpLife[s] = "unborn"
    /\ ExitScope("early")

\* a panic unwinds the scope
Unwind == ExitScope("unwind")

\* the storage of a dropped key pair is given back
Release ==
    /\ \E s \in Slots :
          /\ kpLife[s] = "dropped"
          /\ kpLife' = [kpLife EXCEPT ![s] = "released"]
    /\ UNCHANGED <<kpMem, kpBorn, kpWipes, kpDraws, kpExit, kpRead>>
    /\ UNCHANGED outsideLife

LifeNext ==
    \/ GenerateEphemeral
    \/ GenerateIdentity
    \/ CloneKp
    \/ ReadKp
    \/ DropKp
    \/ Return
    \/ EarlyReturn
    \/ Unwind
    \/ Release

SpecLife == LifeInit /\ [][LifeNext]_vars

\* C11: a key pair whose life has ended (dropped, or dropped and released)
\* has all 32 bytes of secret_key zero and was wiped exactly once; a key
\* pair is not wiped before its end of life; and once the scope is left, by
\* normal return, early return or unwind, none of its key pairs is live
C11_ZeroizedOnceAtEndOfLife ==
    /\ \A s \in DOMAIN kpLife :
          /\ kpLife[s] \in {"dropped", "released"} =>
                /\ \A i \in 1..32 : kpMem[s].secret_key[i] = 0
                /\ kpWipes[s] = 1
          /\ kpLife[s] \in {"unborn", "live"} => kpWipes[s] = 0
    /\ kpExit \in {"return", "early", "unwind"} =>
          \A s \in DOMAIN kpLife : kpLife[s] # "live"

\* a key pair with a non-zero secret, dropped by an unwind and released
C11_Witness ==
    /\ kpExit = "unwind"
    /\ \E s \in DOMAIN kpLife :
          /\ kpLife[s] = "released"
          /\ kpBorn[s].pair.secret_key # Zero32
          /\ kpMem[s].secret_key = Zero32
          /\ kpWipes[s] = 1

\* C12: in every step (a clone, a read, a drop, a scope exit, a release, in
\* any order) a clone is born with the fields of its original in storage
\* of its own, every key pair that is live before and after the step keeps
\* its secret_key and public_key, a key pair that is dropped alone has its
\* own secret zeroized and its public_key kept, and a read returns the
\* fields the key pair was born with
C12_CloneIndependence ==
    [][\A s \in DOMAIN kpLife :
          /\ (kpLife[s] = "unborn" /\ kpLife'[s] = "live"
                /\ kpBorn'[s].fn = "clone") =>
                \E src \in DOMAIN kpLife :
                    /\ src # s /\ kpLife'[src] = "live"
                    /\ kpMem'[s] = kpMem[src] /\ kpMem'[src] = kpMem[src]
          /\ (kpLife[s] = "live" /\ kpLife'[s] = "live") =>
                kpMem'[s] = kpMem[s]
          /\ (kpLife[s] = "live" /\ kpLife'[s] = "dropped") =>
                /\ kpMem'[s].secret_key = Zero32
                /\ kpMem'[s].public_key = kpMem[s].public_key
                /\ kpWipes'[s] = 1
          /\ (kpRead' # kpRead /\ kpRead'.slot = s) =>
                kpRead'.pair = kpBorn[s].pair]_vars

\* an original and a clone of it, the clone dropped and released, the
\* original read afterwards with its secret intact
C12_Witness ==
    /\ kpExit = "running"
    /\ \E o \in DOMAIN kpLife, c \in DOMAIN kpLife :
          /\ kpBorn[o] # None /\ kpBorn[o].fn # "clone"
          /\ kpBorn[c] # None /\ kpBorn[c].fn = "clone"
          /\ kpLife[c] = "released" /\ kpMem[c].secret_key = Zero32
          /\ kpLife[o] = "live"
          /\ kpMem[o] = kpBorn[c].pair
          /\ kpMem[o].secret_key # Zero32
          /\ kpRead = [slot |-> o, pair |-> kpMem[o]]

\* the key pairs a generator returned
Generated(s) ==
    /\ kpBorn[s] # None
    /\ kpBorn[s].fn \in {"generate_ephemeral_keypair",
                         "generate_identity_keypair"}

\* C13: every key pair returned by generate_ephemeral_keypair or
\* generate_identity_keypair has, as returned and for as long as it lives,
\* public_key equal to the X25519 public key of its own secret_key; for the
\* same draw generate_identity_keypair returns what
\* generate_ephemeral_keypair returns; and the random source was asked for
\* exactly one 32-byte draw per returned key pair
C13_PublicKeyOfOwnSecret ==
    /\ \A s \in DOMAIN kpLife :
          Generated(s) =>
             /\ Len(kpBorn[s].pair.secret_key) = 32
             /\ Len(kpBorn[s].pair.public_key) = 32
             /\ kpBorn[s].pair.public_key = PublicOf(kpBorn[s].pair.secret_key)
             /\ kpBorn[s].pair \in
                   { generate_ephemeral_keypair(d) : d \in SecretPool }
             /\ kpLife[s] = "live" => kpMem[s] = kpBorn[s].pair
    /\ kpExit # "idle" =>
          kpDraws = Cardinality({ s \in DOMAIN kpLife : Generated(s) })

\* an identity key pair and an ephemeral key pair, both live, from
\* different draws
C13_Witness ==
    \E s \in DOMAIN kpLife, t \in DOMAIN kpLife :
        /\ kpLife[s] = "live" /\ kpLife[t] = "live"
        /\ kpBorn[s].fn = "generate_identity_keypair"
        /\ kpBorn[t].fn = "generate_ephemeral_keypair"
        /\ kpMem[s].secret_key # kpMem[t].secret_key
        /\ kpMem[s].public_key = PublicOf(kpMem[s].secret_key)
        /\ kpMem[t].public_key = PublicOf(kpMem[t].secret_key)
        /\ kpDraws = 2

---------------------------------------------------------------------------
(* encoding.rs : from_hex, and the codecs called on their own              *)
(*                                                                         *)
(* A &str is a sequence of UTF-8 bytes; encoded.len() and the range        *)
(* encoded[i..i + 2] count bytes.  Slicing a str at an index inside a      *)
(* multi-byte character panics.                                            *)

\* str::is_char_boundary(idx), idx counted from 0
is_char_boundary(s, idx) ==
    \/ idx = 0
    \/ idx = Len(s)
    \/ (idx < Len(s) /\ s[idx + 1] \notin 128..191)

to_digit16_Decimal(c) == IF c \in 48..57 THEN c - 48 ELSE -1

\* char::to_digit(16): 0-9, a-f, A-F; -1 stands for None
to_digit16(c) ==
    IF c \in 48..57 THEN c - 48
    ELSE IF c \in 97..102 THEN c - 97 + 10
    ELSE IF c \in 65..70 THEN c - 65 + 10
    ELSE -1

\* the digits of src, most significant first, as a number below 256, or
\* -1 when one of them is not a digit
RECURSIVE Digits16(_, _, _)
Digits16(src, i, acc) ==
    IF i > Len(src) THEN acc
    ELSE IF to_digit16(src[i]) < 0 THEN -1
    ELSE Digits16(src, i + 1, 16 * acc + to_digit16(src[i]))

\* u8::from_str_radix(src, 16) of core: an optional leading '+', then
\* digits only; a lone sign and an empty string are errors; '-' is no sign
\* of an unsigned type.  Two hex digits never overflow a u8.
from_str_radix16(src) ==
    IF Len(src) = 0 THEN [ok |-> FALSE]
    ELSE IF src[1] \in {43, 45} /\ Len(src) = 1 THEN [ok |-> FALSE]
    ELSE LET digits == IF src[1] = 43 THEN Drop(src, 1) ELSE src
             v == Digits16(digits, 1, 0)
         IN  IF v < 0 THEN [ok |-> FALSE] ELSE Ok(v)

\* the panic of &encoded[i..i + 2] off a char boundary
SlicePanic == Err("panic", "byte index is not a char boundary")

\* the pairs from byte offset i on, collected until the first error
RECURSIVE HexPairs(_, _, _)
HexPairs(encoded, i, acc) ==
    IF i >= Len(encoded) THEN Ok(acc)
    ELSE IF ~is_char_boundary(encoded, i) \/ ~is_char_boundary(encoded, i + 2)
         THEN SlicePanic
    ELSE LET r == from_str_radix16(SubSeq(encoded, i + 1, i + 2))
         IN  IF ~r.ok
             THEN Err("Encoding", "invalid hex: invalid digit found in string")
             ELSE HexPairs(encoded, i + 2, Append(acc, r.val))

from_hex(encoded) ==
    IF Len(encoded) % 2 # 0 THEN Err("Encoding", "odd-length hex string")
    ELSE HexPairs(encoded, 0, << >>)

\* characters of the texts handed to from_hex, each as its UTF-8 bytes:
\* 0 9 a f A F, then g G + - space, then e-acute (two bytes)
HexChars ==
    { <<48>>, <<57>>, <<97>>, <<102>>, <<65>>, <<70>>,
      <<103>>, <<71>>, <<43>>, <<45>>, <<32>>, <<195, 169>> }

\* the texts of exactly n characters, and of at most n
RECURSIVE TextsOf(_)
TextsOf(n) ==
    IF n = 0 THEN { << >> }
    ELSE { t \o c : t \in TextsOf(n - 1), c \in HexChars }

HexTexts == UNION { TextsOf(n) : n \in 0..MaxHexChars }

\* byte strings encoded and decoded again
CodecBytes == SeqsUpTo({0, 10, 171, 255}, MaxCodecLen)

CodecInit ==
    /\ BoxInit /\ SasIdle /\ LifeIdle /\ PeerIdle /\ WireIdle /\ ConstIdle
    /\ PolicyIdle /\ DrainIdle /\ ErrIdle /\ BindIdle /\ GenIdle
    /\ cdOp = "none" /\ cdIn = None /\ cdMid = None /\ cdOut = None

\* from_hex(text) on any text
FromHexCall ==
    /\ cdOp = "none"
    /\ \E text \in HexTexts :
          /\ cdIn' = text
          /\ cdOut' = from_hex(text)
    /\ cdOp' = "from_hex"
    /\ UNCHANGED cdMid
    /\ UNCHANGED outsideCodec

\* from_hex(&to_hex(x))
HexRoundTrip ==
    /\ cdOp = "none"
    /\ \E x \in CodecBytes :
          /\ cdIn' = x
          /\ cdMid' = to_hex(x)
          /\ cdOut' = from_hex(to_hex(x))
    /\ cdOp' = "hex_round_trip"
    /\ UNCHANGED outsideCodec

\* from_base64(&to_base64(x))
Base64RoundTrip ==
    /\ cdOp = "none"
    /\ \E x \in CodecBytes :
          /\ cdIn' = x
          /\ cdMid' = to_base64(x)
          /\ cdOut' = from_base64(to_base64(x))
    /\ cdOp' = "base64_round_trip"
    /\ UNCHANGED outsideCodec

CodecNext ==
    \/ FromHexCall
    \/ HexRoundTrip
    \/ Base64RoundTrip

SpecCodec == CodecInit /\ [][CodecNext]_vars

\* the hex digits 0-9, a-f, A-F
IsHexDigit(c) == c \in (48..57) \cup (97..102) \cup (65..70)

\* C14: from_hex of a text of odd length, or with a byte that is not one
\* of the hex digits 0-9, a-f, A-F at any position, returns an Encoding
\* error: it returns no bytes and does not panic
C14_FromHexRejectsBadInput ==
    cdOp = "from_hex" =>
        ((Len(cdIn) % 2 # 0 \/ \E i \in 1..Len(cdIn) : ~IsHexDigit(cdIn[i]))
            => Failed(cdOut, "Encoding"))

\* C15: decoding what was encoded gives the bytes back, for base64 and
\* for hex, the empty byte string included; to_hex(x) has 2 * len(x)
\* characters, all of them 0-9 or a-f
C15_CodecRoundTrips ==
    /\ cdOp = "base64_round_trip" => cdOut = Ok(cdIn)
    /\ cdOp = "hex_round_trip" =>
          /\ cdOut = Ok(cdIn)
          /\ Len(cdMid) = 2 * Len(cdIn)
          /\ \A i \in 1..Len(cdMid) : cdMid[i] \in (48..57) \cup (97..102)

\* a hex round trip of bytes whose digits are letters and digits, with a
\* leading zero digit
C15_Witness ==
    /\ cdOp = "hex_round_trip"
    /\ cdIn = <<10, 171, 255>>
    /\ cdMid = <<48, 97, 97, 98, 102, 102>>
    /\ cdOut = Ok(<<10, 171, 255>>)

---------------------------------------------------------------------------
(* peer_code.rs *)

\* constants.rs: "ABCDEFGHJKMNPQRSTUVWXYZ23456789"
PEER_CODE_ALPHABET ==
    << 65, 66, 67, 68, 69, 70, 71, 72, 74, 75, 77, 78, 80, 81, 82, 83,
       84, 85, 86, 87, 88, 89, 90, 50, 51, 52, 53, 54, 55, 56, 57 >>

REJECTION_MAX == 248

FillStep_RejectAll(byte) == << >>

FillStep_Biased(byte) ==
    << PEER_CODE_ALPHABET[(byte % Len(PEER_CODE_ALPHABET)) + 1] >>

\* fill_unbiased, one byte of a batch: what it pushes onto result
FillStep(byte) ==
    IF byte < REJECTION_MAX
    THEN << PEER_CODE_ALPHABET[(byte % Len(PEER_CODE_ALPHABET)) + 1] >>
    ELSE << >>

\* fill_unbiased(6) and fill_unbiased(8)
Count(kind) == IF kind = "secure" THEN 6 ELSE 8

\* generate_secure_peer_code, given what fill_unbiased(6) returned
generate_secure_peer_code(chars) == chars

generate_long_peer_code_DashAfter3(chars) ==
    Take(chars, 3) \o <<45>> \o Drop(chars, 3)

\* generate_long_peer_code, given what fill_unbiased(8) returned
generate_long_peer_code(chars) ==
    Take(chars, 4) \o <<45>> \o Drop(chars, 4)

NotDash(c) == c # 45

\* code.replace('-', "")
replace_dash(code) == SelectSeq(code, NotDash)

\* the test of .all(|c| PEER_CODE_ALPHABET.contains(c)); a byte of a
\* character beyond ASCII is never a byte of the alphabet
InAlphabet(c) == \E k \in 1..Len(PEER_CODE_ALPHABET) : PEER_CODE_ALPHABET[k] = c

is_valid_peer_code_NoUppercase(code) ==
    LET normalized == replace_dash(code)
    IN  IF Len(normalized) # 6 /\ Len(normalized) # 8 THEN FALSE
        ELSE \A i \in 1..Len(normalized) : InAlphabet(normalized[i])

is_valid_peer_code_NoStrip(code) ==
    LET normalized == to_uppercase(code)
    IN  IF Len(normalized) # 6 /\ Len(normalized) # 8 THEN FALSE
        ELSE \A i \in 1..Len(normalized) : InAlphabet(normalized[i])

is_valid_peer_code(code) ==
    LET normalized == to_uppercase(replace_dash(code))
    IN  IF Len(normalized) # 6 /\ Len(normalized) # 8 THEN FALSE
        ELSE \A i \in 1..Len(normalized) : InAlphabet(normalized[i])

normalize_peer_code(code) == to_uppercase(replace_dash(code))

\* bytes OsRng may put into a batch: both ends of the accepted range, two
\* neighbours that wrap around the alphabet, both ends of the rejected range
BytePool == { 0, 30, 31, 247, 248, 255 }

\* ---- texts handed to is_valid_peer_code

\* str::to_ascii_lowercase
to_ascii_lowercase(text) ==
    [i \in 1..Len(text) |->
        IF text[i] >= 65 /\ text[i] <= 90 THEN text[i] + 32 ELSE text[i]]

\* the i-th character replaced by the character c (its UTF-8 bytes)
Splice(code, i, c) == Take(code, i - 1) \o c \o Drop(code, i)

\* a dash put in after p bytes
WithDash(code, p) == Take(code, p) \o <<45>> \o Drop(code, p)

\* characters outside the alphabet: 0 O 1 I L, o l i, space, U+017F, U+FB00
BadChars ==
    { <<48>>, <<79>>, <<49>>, <<73>>, <<76>>, <<111>>, <<108>>, <<105>>,
      <<32>>, <<197, 191>>, <<239, 172, 128>> }

\* alphabet-only codes of n characters, each with one character replaced,
\* in upper and lower case, with up to two dashes anywhere
CodesOf(n) ==
    LET first == Take(PEER_CODE_ALPHABET, n)
        last == Drop(PEER_CODE_ALPHABET, Len(PEER_CODE_ALPHABET) - n)
        plain == { first, last, to_ascii_lowercase(first),
                   to_ascii_lowercase(last) }
        replaced == { Splice(x, i, c) : x \in plain, i \in 1..n, c \in BadChars }
        one == { WithDash(x, p) : x \in plain \cup replaced, p \in 0..n }
        two == { WithDash(WithDash(x, p), q) : x \in plain, p \in 0..n,
                                              q \in 0..(n + 1) }
    IN  plain \cup replaced
           \cup { y \in one : \A i \in 1..Len(y) :
                                 y[i] = 45 => is_char_boundary(y, i - 1) }
           \cup two

PeerCodes == UNION { CodesOf(n) : n \in 0..MaxCodeLen }

PeerInit ==
    /\ BoxInit /\ SasIdle /\ LifeIdle /\ CodecIdle /\ WireIdle /\ ConstIdle
    /\ PolicyIdle /\ DrainIdle /\ ErrIdle /\ BindIdle /\ GenIdle
    /\ genPc = "ready" /\ genKind = None /\ genResult = None /\ genBatch = 0
    /\ genByte = -1 /\ genPushed = None /\ genCode = None
    /\ valIn = None /\ valOut = None

\* is_valid_peer_code(code) on any text
ValidateCall ==
    /\ genPc = "ready"
    /\ \E code \in PeerCodes :
          /\ valIn' = code
          /\ valOut' = is_valid_peer_code(code)
    /\ genPc' = "validated"
    /\ UNCHANGED <<genKind, genResult, genBatch, genByte, genPushed, genCode>>
    /\ UNCHANGED outsidePeer

\* generate_secure_peer_code() / generate_long_peer_code() is entered:
\* let mut result = String::with_capacity(count)
StartGenerate(kind) ==
    /\ genPc = "ready"
    /\ genPc' = "filling"
    /\ genKind' = kind
    /\ genResult' = << >>
    /\ UNCHANGED <<genBatch, genByte, genPushed, genCode, valIn, valOut>>
    /\ UNCHANGED outsidePeer

StartSecure == StartGenerate("secure")

StartLong == StartGenerate("long")

\* while result.len() < count: a batch of count - result.len() + 4 bytes
DrawBatch ==
    /\ genPc = "filling"
    /\ genBatch = 0
    /\ Len(genResult) < Count(genKind)
    /\ genBatch' = Count(genKind) - Len(genResult) + 4
    /\ UNCHANGED <<genPc, genKind, genResult, genByte, genPushed, genCode,
                   valIn, valOut>>
    /\ UNCHANGED outsidePeer

\* for &byte in &batch: the next byte of the batch
TakeByte ==
    /\ genPc = "filling"
    /\ genBatch > 0
    /\ Len(genResult) < Count(genKind)
    /\ \E byte \in BytePool :
          /\ genByte' = byte
          /\ genPushed' = FillStep(byte)
          /\ genResult' = genResult \o FillStep(byte)
    /\ genBatch' = genBatch - 1
    /\ UNCHANGED <<genPc, genKind, genCode, valIn, valOut>>
    /\ UNCHANGED outsidePeer

\* result.len() >= count: break, the loop ends, the code is returned
Finish ==
    /\ genPc = "filling"
    /\ Len(genResult) >= Count(genKind)
    /\ genCode' = IF genKind = "secure"
                  THEN generate_secure_peer_code(genResult)
                  ELSE generate_long_peer_code(genResult)
    /\ genBatch' = 0
    /\ genPc' = "done"
    /\ UNCHANGED <<genKind, genResult, genByte, genPushed, valIn, valOut>>
    /\ UNCHANGED outsidePeer

\* is_valid_peer_code(&code) on the generated code
ValidateGenerated ==
    /\ genPc = "done"
    /\ valIn' = genCode
    /\ valOut' = is_valid_peer_code(genCode)
    /\ genPc' = "checked"
    /\ UNCHANGED <<genKind, genResult, genBatch, genByte, genPushed, genCode>>
    /\ UNCHANGED outsidePeer

PeerNext ==
    \/ ValidateCall
    \/ StartSecure
    \/ StartLong
    \/ DrawBatch
    \/ TakeByte
    \/ Finish
    \/ ValidateGenerated

SpecPeer == PeerInit /\ [][PeerNext]_vars

\* the alphabet as a set of 31 symbols
AlphabetSet == { PEER_CODE_ALPHABET[k] : k \in 1..Len(PEER_CODE_ALPHABET) }

\* text without its dashes
RECURSIVE Dashless(_)
Dashless(text) ==
    IF text = << >> THEN << >>
    ELSE IF Head(text) = 45 THEN Dashless(Tail(text))
    ELSE <<Head(text)>> \o Dashless(Tail(text))

\* C16: is_valid_peer_code(code) is true exactly when code, with every
\* dash removed and uppercased, has length 6 or 8 and only symbols of the
\* 31-symbol alphabet; a code with one of 0 O 1 I L in it is rejected, and
\* the lowercase spelling of an accepted code is accepted
C16_ValidExactlyWhenNormalizedFits ==
    genPc = "validated" =>
        LET upper == to_uppercase(Dashless(valIn))
        IN  /\ Cardinality(AlphabetSet) = 31
            /\ valOut <=> /\ Len(upper) \in {6, 8}
                          /\ \A i \in 1..Len(upper) : upper[i] \in AlphabetSet
            /\ (\E i \in 1..Len(valIn) : valIn[i] \in {48, 79, 49, 73, 76})
                  => ~valOut
            /\ valOut => is_valid_peer_code(to_ascii_lowercase(valIn))

\* a lowercase code with a dash is accepted
C16_Witness ==
    /\ genPc = "validated"
    /\ valIn = <<97, 98, 99, 100, 45, 101, 102, 103, 104>>
    /\ valOut = TRUE

\* XXXXXX
IsShortFormat(text) ==
    /\ Len(text) = 6
    /\ \A i \in 1..6 : text[i] \in AlphabetSet

\* XXXXXXXX or XXXX-XXXX
IsLongFormat(text) ==
    \/ /\ Len(text) = 8
       /\ \A i \in 1..8 : text[i] \in AlphabetSet
    \/ /\ Len(text) = 9
       /\ text[5] = 45
       /\ \A i \in (1..9) \ {5} : text[i] \in AlphabetSet

\* C17 as claimed: an accepted text is, case aside, six alphabet
\* characters, or eight alphabet characters with at most a single dash
\* after the fourth
C17_AcceptedHasAFormat ==
    (genPc = "validated" /\ valOut) =>
        (IsShortFormat(to_uppercase(valIn)) \/ IsLongFormat(to_uppercase(valIn)))

\* C17 amended: an accepted text is, once its dashes (any number of them,
\* anywhere) are removed and it is uppercased, six or eight alphabet
\* characters; and every text of the two formats, in either case, is
\* accepted
C17_AcceptedNormalizesToAFormat ==
    genPc = "validated" =>
        /\ valOut =>
              \/ IsShortFormat(normalize_peer_code(valIn))
              \/ IsLongFormat(normalize_peer_code(valIn))
        /\ (IsShortFormat(to_uppercase(valIn)) \/ IsLongFormat(to_uppercase(valIn)))
              => valOut

\* XXXX-XXXX is accepted, in lower case
C17_Witness ==
    /\ genPc = "validated"
    /\ Len(valIn) = 9 /\ valIn[5] = 45
    /\ valIn # to_uppercase(valIn)
    /\ IsLongFormat(to_uppercase(valIn))
    /\ valOut = TRUE

\* C18: whatever bytes the random source gave, generate_secure_peer_code
\* returns exactly 6 alphabet characters, generate_long_peer_code returns
\* exactly 9 characters, a dash at index 4 (from 0) and alphabet
\* characters at the other 8, and is_valid_peer_code accepts the result
C18_GeneratedCodesAreValid ==
    /\ genPc \in {"done", "checked"} =>
          /\ genKind = "secure" =>
                /\ Len(genCode) = 6
                /\ \A i \in 1..6 : genCode[i] \in AlphabetSet
          /\ genKind = "long" =>
                /\ Len(genCode) = 9
                /\ genCode[5] = 45
                /\ \A i \in (1..9) \ {5} : genCode[i] \in AlphabetSet
    /\ genPc = "checked" => (valIn = genCode /\ valOut = TRUE)

\* a long code made of both ends of the alphabet passed validation after
\* a byte of the batch had been rejected
C18_Witness ==
    /\ genPc = "checked" /\ genKind = "long"
    /\ genCode = <<65, 57, 65, 57, 45, 65, 57, 65, 57>>
    /\ valOut = TRUE

\* the byte values that push a character, and those that push symbol c
AcceptedBytes == { b \in 0..255 : FillStep(b) # << >> }

BytesOf == [c \in AlphabetSet |-> { b \in 0..255 : FillStep(b) = <<c>> }]

\* C19: a byte taken from a batch pushes a character exactly when it is
\* below 248, and the character is alphabet[byte mod 31]; a byte in
\* 248..255 pushes nothing; of the 256 byte values 248 push a character,
\* and each of the 31 symbols is pushed by exactly 8 of them
C19_RejectionSamplingIsExact ==
    genByte >= 0 =>
        /\ genByte < 248 =>
              genPushed = << PEER_CODE_ALPHABET[(genByte % 31) + 1] >>
        /\ genByte >= 248 => genPushed = << >>
        /\ genPushed # << >> <=> genByte \in AcceptedBytes
        /\ AcceptedBytes = 0..247
        /\ \A c \in AlphabetSet : Cardinality(BytesOf[c]) = 8

\* the last accepted byte value, 247, pushed the last symbol, "9"
C19_Witness ==
    /\ genPc = "filling"
    /\ genByte = 247
    /\ genPushed = <<57>>
    /\ genResult # << >> /\ genResult[Len(genResult)] = 57

---------------------------------------------------------------------------
(* errors.rs : the wire error registry *)

\* pub const WIRE_ERROR_CODES: [&str; 22], each code as its ASCII bytes
WIRE_ERROR_CODES ==
    <<
       \* PROTOCOL class (11)
       \* "VERSION_MISMATCH"
       <<86, 69, 82, 83, 73, 79, 78, 95, 77, 73, 83, 77, 65, 84, 67, 72>>,
       \* "ENCRYPTION_FAILED"
       <<69, 78, 67, 82, 89, 80, 84, 73, 79, 78, 95, 70, 65, 73, 76, 69,
         68>>,
       \* "INTEGRITY_FAILED"
       <<73, 78, 84, 69, 71, 82, 73, 84, 89, 95, 70, 65, 73, 76, 69, 68>>,
       \* "REPLAY_DETECTED"
       <<82, 69, 80, 76, 65, 89, 95, 68, 69, 84, 69, 67, 84, 69, 68>>,
       \* "TRANSFER_FAILED"
       <<84, 82, 65, 78, 83, 70, 69, 82, 95, 70, 65, 73, 76, 69, 68>>,
       \* "LIMIT_EXCEEDED"
       <<76, 73, 77, 73, 84, 95, 69, 88, 67, 69, 69, 68, 69, 68>>,
       \* "CONNECTION_LOST"
       <<67, 79, 78, 78, 69, 67, 84, 73, 79, 78, 95, 76, 79, 83, 84>>,
       \* "PEER_NOT_FOUND"
       <<80, 69, 69, 82, 95, 78, 79, 84, 95, 70, 79, 85, 78, 68>>,
       \* "ALREADY_CONNECTED"
       <<65, 76, 82, 69, 65, 68, 89, 95, 67, 79, 78, 78, 69, 67, 84, 69,
         68>>,
       \* "INVALID_STATE"
       <<73, 78, 86, 65, 76, 73, 68, 95, 83, 84, 65, 84, 69>>,
       \* "KEY_MISMATCH"
       <<75, 69, 89, 95, 77, 73, 83, 77, 65, 84, 67, 72>>,
       \* ENFORCEMENT class (11)
       \* "DUPLICATE_HELLO"
       <<68, 85, 80, 76, 73, 67, 65, 84, 69, 95, 72, 69, 76, 76, 79>>,
       \* "ENVELOPE_REQUIRED"
       <<69, 78, 86, 69, 76, 79, 80, 69, 95, 82, 69, 81, 85, 73, 82, 69,
         68>>,
       \* "ENVELOPE_UNNEGOTIATED"
       <<69, 78, 86, 69, 76, 79, 80, 69, 95, 85, 78, 78, 69, 71, 79, 84,
         73, 65, 84, 69, 68>>,
       \* "ENVELOPE_DECRYPT_FAIL"
       <<69, 78, 86, 69, 76, 79, 80, 69, 95, 68, 69, 67, 82, 89, 80, 84,
         95, 70, 65, 73, 76>>,
       \* "ENVELOPE_INVALID"
       <<69, 78, 86, 69, 76, 79, 80, 69, 95, 73, 78, 86, 65, 76, 73, 68>>,
       \* "HELLO_PARSE_ERROR"
       <<72, 69, 76, 76, 79, 95, 80, 65, 82, 83, 69, 95, 69, 82, 82, 79,
         82>>,
       \* "HELLO_DECRYPT_FAIL"
       <<72, 69, 76, 76, 79, 95, 68, 69, 67, 82, 89, 80, 84, 95, 70, 65,
         73, 76>>,
       \* "HELLO_SCHEMA_ERROR"
       <<72, 69, 76, 76, 79, 95, 83, 67, 72, 69, 77, 65, 95, 69, 82, 82,
         79, 82>>,
       \* "INVALID_MESSAGE"
       <<73, 78, 86, 65, 76, 73, 68, 95, 77, 69, 83, 83, 65, 71, 69>>,
       \* "UNKNOWN_MESSAGE_TYPE"
       <<85, 78, 75, 78, 79, 87, 78, 95, 77, 69, 83, 83, 65, 71, 69, 95,
         84, 89, 80, 69>>,
       \* "PROTOCOL_VIOLATION"
       <<80, 82, 79, 84, 79, 67, 79, 76, 95, 86, 73, 79, 76, 65, 84, 73,
         79, 78>>
    >>

\* [&str]::contains compares byte for byte
is_valid_wire_error_code_AnyCase(code) ==
    \E k \in 1..Len(WIRE_ERROR_CODES) :
        WIRE_ERROR_CODES[k] = to_uppercase(code)

is_valid_wire_error_code(code) ==
    \E k \in 1..Len(WIRE_ERROR_CODES) : WIRE_ERROR_CODES[k] = code

\* tests/conformance/wire_error_registry.rs: the list the registry is
\* compared with
expected ==
    <<
       \* PROTOCOL class (11)
       \* "VERSION_MISMATCH"
       <<86, 69, 82, 83, 73, 79, 78, 95, 77, 73, 83, 77, 65, 84, 67, 72>>,
       \* "ENCRYPTION_FAILED"
       <<69, 78, 67, 82, 89, 80, 84, 73, 79, 78, 95, 70, 65, 73, 76, 69,
         68>>,
       \* "INTEGRITY_FAILED"
       <<73, 78, 84, 69, 71, 82, 73, 84, 89, 95, 70, 65, 73, 76, 69, 68>>,
       \* "REPLAY_DETECTED"
       <<82, 69, 80, 76, 65, 89, 95, 68, 69, 84, 69, 67, 84, 69, 68>>,
       \* "TRANSFER_FAILED"
       <<84, 82, 65, 78, 83, 70, 69, 82, 95, 70, 65, 73, 76, 69, 68>>,
       \* "LIMIT_EXCEEDED"
       <<76, 73, 77, 73, 84, 95, 69, 88, 67, 69, 69, 68, 69, 68>>,
       \* "CONNECTION_LOST"
       <<67, 79, 78, 78, 69, 67, 84, 73, 79, 78, 95, 76, 79, 83, 84>>,
       \* "PEER_NOT_FOUND"
       <<80, 69, 69, 82, 95, 78, 79, 84, 95, 70, 79, 85, 78, 68>>,
       \* "ALREADY_CONNECTED"
       <<65, 76, 82, 69, 65, 68, 89, 95, 67, 79, 78, 78, 69, 67, 84, 69,
         68>>,
       \* "INVALID_STATE"
       <<73, 78, 86, 65, 76, 73, 68, 95, 83, 84, 65, 84, 69>>,
       \* "KEY_MISMATCH"
       <<75, 69, 89, 95, 77, 73, 83, 77, 65, 84, 67, 72>>,
       \* ENFORCEMENT class (11)
       \* "DUPLICATE_HELLO"
       <<68, 85, 80, 76, 73, 67, 65, 84, 69, 95, 72, 69, 76, 76, 79>>,
       \* "ENVELOPE_REQUIRED"
       <<69, 78, 86, 69, 76, 79, 80, 69, 95, 82, 69, 81, 85, 73, 82, 69,
         68>>,
       \* "ENVELOPE_UNNEGOTIATED"
       <<69, 78, 86, 69, 76, 79, 80, 69, 95, 85, 78, 78, 69, 71, 79, 84,
         73, 65, 84, 69, 68>>,
       \* "ENVELOPE_DECRYPT_FAIL"
       <<69, 78, 86, 69, 76, 79, 80, 69, 95, 68, 69, 67, 82, 89, 80, 84,
         95, 70, 65, 73, 76>>,
       \* "ENVELOPE_INVALID"
       <<69, 78, 86, 69, 76, 79, 80, 69, 95, 73, 78, 86, 65, 76, 73, 68>>,
       \* "HELLO_PARSE_ERROR"
       <<72, 69, 76, 76, 79, 95, 80, 65, 82, 83, 69, 95, 69, 82, 82, 79,
         82>>,
       \* "HELLO_DECRYPT_FAIL"
       <<72, 69, 76, 76, 79, 95, 68, 69, 67, 82, 89, 80, 84, 95, 70, 65,
         73, 76>>,
       \* "HELLO_SCHEMA_ERROR"
       <<72, 69, 76, 76, 79, 95, 83, 67, 72, 69, 77, 65, 95, 69, 82, 82,
         79, 82>>,
       \* "INVALID_MESSAGE"
       <<73, 78, 86, 65, 76, 73, 68, 95, 77, 69, 83, 83, 65, 71, 69>>,
       \* "UNKNOWN_MESSAGE_TYPE"
       <<85, 78, 75, 78, 79, 87, 78, 95, 77, 69, 83, 83, 65, 71, 69, 95,
         84, 89, 80, 69>>,
       \* "PROTOCOL_VIOLATION"
       <<80, 82, 79, 84, 79, 67, 79, 76, 95, 86, 73, 79, 76, 65, 84, 73,
         79, 78>>
    >>

\* texts handed to is_valid_wire_error_code: the codes, their lowercase
\* spellings, codes with a character missing at either end or one more at
\* the end, two codes joined, "", "NOT_A_REAL_CODE"
WireTexts ==
    LET listed == { WIRE_ERROR_CODES[k] : k \in 1..Len(WIRE_ERROR_CODES) }
    IN  listed
           \cup { to_ascii_lowercase(c) : c \in listed }
           \cup { Take(c, Len(c) - 1) : c \in listed }
           \cup { Drop(c, 1) : c \in listed }
           \cup { c \o <<x>> : c \in listed, x \in {32, 95, 83} }
           \cup { WIRE_ERROR_CODES[11] \o WIRE_ERROR_CODES[12] }
           \cup { << >>, <<78, 79, 84, 95, 65, 95, 82, 69, 65, 76, 95, 67, 79, 68, 69>> }

WireInit ==
    /\ BoxInit /\ SasIdle /\ LifeIdle /\ CodecIdle /\ PeerIdle /\ ConstIdle
    /\ PolicyIdle /\ DrainIdle /\ ErrIdle /\ BindIdle /\ GenIdle
    /\ wireOp = "none" /\ wireIn = None /\ wireOut = None

\* is_valid_wire_error_code(code) on any text
ValidateWire ==
    /\ wireOp = "none"
    /\ \E code \in WireTexts :
          /\ wireIn' = code
          /\ wireOut' = is_valid_wire_error_code(code)
    /\ wireOp' = "validate"
    /\ UNCHANGED outsideWire

\* WIRE_ERROR_CODES[i], i counted from 0
ReadEntry ==
    /\ wireOp = "none"
    /\ \E i \in 0..(Len(WIRE_ERROR_CODES) - 1) :
          /\ wireIn' = i
          /\ wireOut' = WIRE_ERROR_CODES[i + 1]
    /\ wireOp' = "read"
    /\ UNCHANGED outsideWire

WireNext ==
    \/ ValidateWire
    \/ ReadEntry

SpecWire == WireInit /\ [][WireNext]_vars

\* C20: the registry holds exactly 22 codes, no two equal, in the order
\* of the conformance list: VERSION_MISMATCH first, KEY_MISMATCH at
\* index 10 (the 11 PROTOCOL codes), DUPLICATE_HELLO at index 11,
\* PROTOCOL_VIOLATION at index 21 (the 11 ENFORCEMENT codes); reading
\* index i gives the i-th code of that list; and
\* is_valid_wire_error_code(s) is true exactly when s is one of the 22
\* codes byte for byte, so not for "" and not for a lowercase spelling
C20_WireRegistry ==
    /\ Len(WIRE_ERROR_CODES) = 22
    /\ \A j \in 1..22, k \in 1..22 :
          j # k => WIRE_ERROR_CODES[j] # WIRE_ERROR_CODES[k]
    /\ WIRE_ERROR_CODES = expected
    /\ WIRE_ERROR_CODES[1] = <<86, 69, 82, 83, 73, 79, 78, 95, 77, 73, 83, 77, 65, 84, 67, 72>>
    /\ WIRE_ERROR_CODES[11] = <<75, 69, 89, 95, 77, 73, 83, 77, 65, 84, 67, 72>>
    /\ WIRE_ERROR_CODES[12] = <<68, 85, 80, 76, 73, 67, 65, 84, 69, 95, 72, 69, 76, 76, 79>>
    /\ WIRE_ERROR_CODES[22] = <<80, 82, 79, 84, 79, 67, 79, 76, 95, 86, 73, 79, 76, 65, 84, 73, 79, 78>>
    /\ wireOp = "read" => wireOut = expected[wireIn + 1]
    /\ wireOp = "validate" =>
          /\ wireOut <=> \E k \in 1..22 : expected[k] = wireIn
          /\ wireIn = << >> => ~wireOut
          /\ (wireIn # to_uppercase(wireIn)) => ~wireOut

\* "key_mismatch" is rejected
C20_Witness ==
    /\ wireOp = "validate"
    /\ wireIn = <<107, 101, 121, 95, 109, 105, 115, 109, 97, 116, 99, 104>>
    /\ wireOut = FALSE

---------------------------------------------------------------------------
(* lib.rs, constants.rs : the constants of the crate                       *)
(*                                                                         *)
(* lib.rs declares `pub mod constants { ... }` inline, so the path         *)
(* bolt_core::constants names that module; the file constants.rs holds a   *)
(* second set of constants under the same names.                           *)

\* constants.rs
constants_rs ==
    [NONCE_LENGTH |-> NONCE_LENGTH,
     PUBLIC_KEY_LENGTH |-> 32,
     SECRET_KEY_LENGTH |-> 32,
     DEFAULT_CHUNK_SIZE |-> 16384,
     PEER_CODE_LENGTH |-> 6,
     PEER_CODE_ALPHABET |-> PEER_CODE_ALPHABET,
     SAS_LENGTH |-> SAS_LENGTH,
     BOX_OVERHEAD |-> BOX_OVERHEAD,
     TRANSFER_ID_LENGTH |-> 16,
     SAS_ENTROPY |-> 24,
     \* "SHA-256"
     FILE_HASH_ALGORITHM |-> <<83, 72, 65, 45, 50, 53, 54>>,
     FILE_HASH_LENGTH |-> 32,
     BOLT_VERSION |-> 1,
     \* "bolt."
     CAPABILITY_NAMESPACE |-> <<98, 111, 108, 116, 46>>]

\* lib.rs: pub mod constants { ... }
lib_constants ==
    [NONCE_LENGTH |-> 24,
     PUBLIC_KEY_LENGTH |-> 32,
     SECRET_KEY_LENGTH |-> 32,
     DEFAULT_CHUNK_SIZE |-> 16384,
     PEER_CODE_LENGTH |-> 4,
     \* "ABCDEFGHIJKLMNOPQRSTUVWXYZ0123456789"
     PEER_CODE_ALPHABET |->
        << 65, 66, 67, 68, 69, 70, 71, 72, 73, 74, 75, 76, 77, 78, 79, 80,
           81, 82, 83, 84, 85, 86, 87, 88, 89, 90, 48, 49, 50, 51, 52, 53,
           54, 55, 56, 57 >>,
     SAS_LENGTH |-> 4,
     BOX_OVERHEAD |-> 16]

\* the constants modules found in the crate's sources, by where they are
ConstModules == [lib_rs |-> lib_constants, constants_rs |-> constants_rs]

\* str::contains(c) for an ASCII character
str_contains(text, c) == \E k \in 1..Len(text) : text[k] = c

\* printable ASCII
AsciiChars == 32..126

ConstInit ==
    /\ BoxInit /\ SasIdle /\ LifeIdle /\ CodecIdle /\ PeerIdle /\ WireIdle
    /\ PolicyIdle /\ DrainIdle /\ ErrIdle /\ BindIdle /\ GenIdle
    /\ cnOp = "none" /\ cnModule = None /\ cnName = None /\ cnValue = None

\* a constant is read: constants::NAME
ReadConst ==
    /\ cnOp = "none"
    /\ \E m \in DOMAIN ConstModules :
          \E name \in DOMAIN ConstModules[m] :
              /\ cnModule' = m
              /\ cnName' = name
              /\ cnValue' = ConstModules[m][name]
    /\ cnOp' = "read"
    /\ UNCHANGED outsideConst

\* PEER_CODE_ALPHABET.len()
AlphabetLen ==
    /\ cnOp = "none"
    /\ \E m \in DOMAIN ConstModules :
          /\ cnModule' = m
          /\ cnName' = None
          /\ cnValue' = Len(ConstModules[m].PEER_CODE_ALPHABET)
    /\ cnOp' = "len"
    /\ UNCHANGED outsideConst

\* PEER_CODE_ALPHABET.contains(c)
AlphabetContains ==
    /\ cnOp = "none"
    /\ \E m \in DOMAIN ConstModules, c \in AsciiChars :
          /\ cnModule' = m
          /\ cnName' = c
          /\ cnValue' = str_contains(ConstModules[m].PEER_CODE_ALPHABET, c)
    /\ cnOp' = "contains"
    /\ UNCHANGED outsideConst

ConstNext ==
    \/ ReadConst
    \/ AlphabetLen
    \/ AlphabetContains

SpecConst == ConstInit /\ [][ConstNext]_vars

\* 0 O 1 I L
Ambiguous == {48, 79, 49, 73, 76}

\* C21: whichever constants module of the crate is read, the peer-code
\* alphabet has exactly 31 characters and none of 0 O 1 I L,
\* PEER_CODE_LENGTH is 6, SAS_LENGTH is 6, NONCE_LENGTH is 24 and
\* BOX_OVERHEAD is 16: the 4-character, ambiguous-alphabet parameters are
\* in none of them
C21_CanonicalConstants ==
    /\ cnOp = "read" =>
          /\ cnName = "PEER_CODE_LENGTH" => cnValue = 6
          /\ cnName = "SAS_LENGTH" => cnValue = 6
          /\ cnName = "NONCE_LENGTH" => cnValue = 24
          /\ cnName = "BOX_OVERHEAD" => cnValue = 16
          /\ cnName = "PEER_CODE_ALPHABET" =>
                /\ Len(cnValue) = 31
                /\ \A k \in 1..Len(cnValue) : cnValue[k] \notin Ambiguous
    /\ cnOp = "len" => cnValue = 31
    /\ (cnOp = "contains" /\ cnName \in Ambiguous) => cnValue = FALSE

---------------------------------------------------------------------------
(* transfer_policy/types.rs, transfer_policy/policy.rs *)

MAX_PACING_DELAY_MS == 5000

\* iter().take(limit).copied().collect()
iter_take(s, limit) == SubSeq(s, 1, IF limit < Len(s) THEN limit ELSE Len(s))

\* x as u16
as_u16(x) == x % 65536

Paused ==
    [next_chunk_ids |-> << >>,
     pacing_delay_ms |-> 0,
     window_suggestion_chunks |-> 0,
     backpressure |-> "Pause"]

Scheduled(next_chunk_ids) ==
    [next_chunk_ids |-> next_chunk_ids,
     pacing_delay_ms |-> 0,
     window_suggestion_chunks |-> as_u16(Len(next_chunk_ids)),
     backpressure |-> "NoChange"]

decide_NoLimit(input) ==
    IF input.link_stats.in_flight_bytes > input.constraints.max_in_flight_bytes
    THEN Paused
    ELSE Scheduled(input.pending_chunk_ids)

decide_PauseAtBoundary(input) ==
    IF input.link_stats.in_flight_bytes >= input.constraints.max_in_flight_bytes
    THEN Paused
    ELSE Scheduled(iter_take(input.pending_chunk_ids,
                             input.constraints.max_parallel_chunks))

decide_SkipFirst(input) ==
    IF input.link_stats.in_flight_bytes > input.constraints.max_in_flight_bytes
    THEN Paused
    ELSE Scheduled(iter_take(IF Len(input.pending_chunk_ids) > 1
                             THEN Tail(input.pending_chunk_ids)
                             ELSE input.pending_chunk_ids,
                             input.constraints.max_parallel_chunks))

decide_Latency(input) ==
    IF input.link_stats.in_flight_bytes > input.constraints.max_in_flight_bytes
    THEN Paused
    ELSE [Scheduled(iter_take(input.pending_chunk_ids,
                              input.constraints.max_parallel_chunks))
            EXCEPT !.pacing_delay_ms =
                      IF input.constraints.fairness_mode = "Latency"
                      THEN 10 ELSE 0]

decide_OneLess(input) ==
    IF input.link_stats.in_flight_bytes > input.constraints.max_in_flight_bytes
    THEN Paused
    ELSE Scheduled(iter_take(input.pending_chunk_ids,
                             input.constraints.max_parallel_chunks - 1))

decide(input) ==
    IF input.link_stats.in_flight_bytes > input.constraints.max_in_flight_bytes
    THEN Paused
    ELSE LET limit == input.constraints.max_parallel_chunks
         IN  Scheduled(iter_take(input.pending_chunk_ids, limit))

\* chunk ids of the pending lists; a list may name an id twice
ChunkIds == { 7, 42, 99 }

PendingLists == SeqsUpTo(ChunkIds, MaxPending)

\* in_flight_bytes against max_in_flight_bytes: under, at, one over, and
\* byte counts in the upper range of u32 (the fields are only compared)
ByteBudgets ==
    { <<0, 1000>>, <<1000, 1000>>, <<1001, 1000>>, <<0, 0>>, <<1, 0>>,
      <<2147483647, 2147483647>>, <<2147483647, 1000>>, <<0, 2147483647>> }

ParallelLimits == { 0, 1, 2, 65535 }

\* the fields decide is handed besides those: make_input's values, and
\* each of them changed alone
Defaults ==
    [device_class |-> "Desktop", fairness_mode |-> "Balanced",
     priority |-> 128, rtt_ms |-> 20, loss_ppm |-> 0]

OtherFields ==
    { Defaults }
      \cup { [Defaults EXCEPT !.device_class = c] :
                c \in {"Mobile", "LowPower", "Unknown"} }
      \cup { [Defaults EXCEPT !.fairness_mode = m] :
                m \in {"Throughput", "Latency"} }
      \cup { [Defaults EXCEPT !.priority = p] : p \in {0, 255} }
      \cup { [Defaults EXCEPT !.rtt_ms = 2147483647],
             [Defaults EXCEPT !.loss_ppm = 1000000] }

\* make_input(pending, max_parallel, max_bytes, in_flight), with the other
\* fields set from o
make_input(pending, max_parallel, max_bytes, in_flight, o) ==
    [pending_chunk_ids |-> pending,
     link_stats |-> [rtt_ms |-> o.rtt_ms, loss_ppm |-> o.loss_ppm,
                     in_flight_bytes |-> in_flight],
     device_class |-> o.device_class,
     constraints |-> [max_parallel_chunks |-> max_parallel,
                      max_in_flight_bytes |-> max_bytes,
                      priority |-> o.priority,
                      fairness_mode |-> o.fairness_mode]]

PolicyInit ==
    /\ BoxInit /\ SasIdle /\ LifeIdle /\ CodecIdle /\ PeerIdle /\ WireIdle
    /\ DrainIdle /\ ErrIdle /\ BindIdle /\ GenIdle
    /\ ConstIdle
    /\ polOp = "none" /\ polIn = None /\ polOut = None
    /\ polIn2 = None /\ polOut2 = None

\* let d1 = decide(&input)
DecideCall ==
    /\ polOp = "none"
    /\ \E pending \in PendingLists, max_parallel \in ParallelLimits,
          b \in ByteBudgets, o \in OtherFields :
          LET input == make_input(pending, max_parallel, b[2], b[1], o)
          IN  /\ polIn' = input
              /\ polOut' = decide(input)
    /\ polOp' = "decided"
    /\ UNCHANGED <<polIn2, polOut2>>
    /\ UNCHANGED outsidePolicy

\* let d2 = decide(&input2), input2 being input with any of device_class,
\* fairness_mode, priority, rtt_ms, loss_ppm changed, or none of them
DecideAgain ==
    /\ polOp = "decided"
    /\ \E o \in OtherFields :
          LET input2 == make_input(polIn.pending_chunk_ids,
                                   polIn.constraints.max_parallel_chunks,
                                   polIn.constraints.max_in_flight_bytes,
                                   polIn.link_stats.in_flight_bytes, o)
          IN  /\ polIn2' = input2
              /\ polOut2' = decide(input2)
    /\ polOp' = "again"
    /\ UNCHANGED <<polIn, polOut>>
    /\ UNCHANGED outsidePolicy

PolicyNext ==
    \/ DecideCall
    \/ DecideAgain

SpecPolicy == PolicyInit /\ [][PolicyNext]_vars

\* C22: every decision schedules at most max_parallel_chunks ids, suggests
\* a window of at most max_parallel_chunks and a pacing delay of at most
\* MAX_PACING_DELAY_MS; with max_parallel_chunks = 0 it schedules nothing
\* and the window is 0
C22_PolicyBounds ==
    polOp \in {"decided", "again"} =>
        LET max_parallel == polIn.constraints.max_parallel_chunks
        IN  /\ Len(polOut.next_chunk_ids) <= max_parallel
            /\ polOut.window_suggestion_chunks <= max_parallel
            /\ polOut.pacing_delay_ms <= MAX_PACING_DELAY_MS
            /\ max_parallel = 0 =>
                  /\ polOut.next_chunk_ids = << >>
                  /\ polOut.window_suggestion_chunks = 0

\* three pending, within budget, limit 2: two are scheduled
C22_Witness ==
    /\ polOp = "decided"
    /\ Len(polIn.pending_chunk_ids) = 3
    /\ polIn.constraints.max_parallel_chunks = 2
    /\ Len(polOut.next_chunk_ids) = 2
    /\ polOut.window_suggestion_chunks = 2

\* C23: the decision is Pause, with nothing scheduled, whenever
\* in_flight_bytes > max_in_flight_bytes, from one byte over; it is not
\* Pause when in_flight_bytes <= max_in_flight_bytes, the two equal included
C23_Backpressure ==
    polOp \in {"decided", "again"} =>
        LET in_flight == polIn.link_stats.in_flight_bytes
            budget == polIn.constraints.max_in_flight_bytes
        IN  /\ in_flight > budget =>
                  /\ polOut.backpressure = "Pause"
                  /\ polOut.next_chunk_ids = << >>
            /\ in_flight <= budget => polOut.backpressure # "Pause"

\* at the exact boundary, with chunks pending, the decision is not Pause
\* and schedules
C23_Witness ==
    /\ polOp = "decided"
    /\ polIn.link_stats.in_flight_bytes = 1000
    /\ polIn.constraints.max_in_flight_bytes = 1000
    /\ polOut.backpressure = "NoChange"
    /\ polOut.next_chunk_ids # << >>

\* C24: within the byte budget, next_chunk_ids is the first
\* min(len(pending), max_parallel_chunks) entries of pending_chunk_ids, in
\* their order, an id named twice kept twice, and
\* window_suggestion_chunks is their number
C24_ScheduleOrder ==
    (polOp \in {"decided", "again"}
       /\ polIn.link_stats.in_flight_bytes
             <= polIn.constraints.max_in_flight_bytes) =>
        LET pending == polIn.pending_chunk_ids
            max_parallel == polIn.constraints.max_parallel_chunks
            n == IF Len(pending) < max_parallel THEN Len(pending)
                 ELSE max_parallel
        IN  /\ Len(polOut.next_chunk_ids) = n
            /\ \A i \in 1..n : polOut.next_chunk_ids[i] = pending[i]
            /\ polOut.window_suggestion_chunks = n

\* of <<42, 7, 7>> with limit 2 the ids 42, 7 are scheduled, in that order
C24_Witness ==
    /\ polOp = "decided"
    /\ polIn.pending_chunk_ids = <<42, 7, 7>>
    /\ polIn.constraints.max_parallel_chunks = 2
    /\ polOut.next_chunk_ids = <<42, 7>>
    /\ polOut.window_suggestion_chunks = 2

\* the fields the decision may depend on
Relevant(input) ==
    <<input.pending_chunk_ids, input.link_stats.in_flight_bytes,
      input.constraints.max_in_flight_bytes,
      input.constraints.max_parallel_chunks>>

\* C27: two calls of decide whose inputs agree on pending_chunk_ids,
\* in_flight_bytes, max_in_flight_bytes and max_parallel_chunks, whether
\* the inputs are identical or differ in device_class, fairness_mode,
\* priority, rtt_ms or loss_ppm, return identical decisions, the order of
\* next_chunk_ids included
C27_DecideIsPure ==
    (polOp = "again" /\ Relevant(polIn) = Relevant(polIn2)) =>
        polOut2 = polOut

\* two calls that differ in fairness_mode alone, both scheduling
C27_Witness ==
    /\ polOp = "again"
    /\ polIn.constraints.fairness_mode = "Balanced"
    /\ polIn2.constraints.fairness_mode = "Latency"
    /\ polIn2 # polIn
    /\ polOut.next_chunk_ids = <<7, 42>>
    /\ polOut2 = polOut

---------------------------------------------------------------------------
(* A caller of decide (types.rs: pending_chunk_ids is "caller-provided, not
   yet in-flight") that schedules what decide returns, takes it off its
   pending list and calls again, staying within the byte budget. *)

\* pending.retain(|id| !returned.contains(id))
retain_not_in(pending, returned) ==
    SelectSeq(pending,
              LAMBDA id : \A i \in 1..Len(returned) : returned[i] # id)

\* pending.drain(..returned.len())
drain_front(pending, returned) ==
    SubSeq(pending, Len(returned) + 1, Len(pending))

DrainInit ==
    /\ BoxInit /\ SasIdle /\ LifeIdle /\ CodecIdle /\ PeerIdle /\ WireIdle
    /\ ErrIdle /\ BindIdle /\ GenIdle
    /\ ConstIdle /\ PolicyIdle
    /\ drOrig \in PendingLists
    /\ drPending = drOrig
    /\ drSched = << >>
    /\ drPar \in ParallelLimits \ {0}
    /\ drBudget \in {0, 1000}
    /\ drLast = None

\* one round: decide is called on what is pending, with in_flight_bytes
\* within the budget; the returned ids are scheduled and taken off the
\* list, by value or from the front
Round(in_flight, by_value) ==
    /\ drPending # << >>
    /\ LET input == make_input(drPending, drPar, drBudget, in_flight, Defaults)
           d == decide(input)
       IN  /\ drLast' = [input |-> input, decision |-> d]
           /\ drSched' = drSched \o d.next_chunk_ids
           /\ drPending' = IF by_value
                           THEN retain_not_in(drPending, d.next_chunk_ids)
                           ELSE drain_front(drPending, d.next_chunk_ids)
    /\ UNCHANGED <<drOrig, drPar, drBudget>>
    /\ UNCHANGED outsideDrain

\* the caller takes the returned ids off its list by value
RoundRetain ==
    \E in_flight \in {0, drBudget} : Round(in_flight, TRUE)

\* the caller takes the returned entries off the front of its list
RoundDrain ==
    \E in_flight \in {0, drBudget} : Round(in_flight, FALSE)

DrainNext ==
    \/ RoundRetain
    \/ RoundDrain

\* the caller calls decide again as long as something is pending
SpecDrain == DrainInit /\ [][DrainNext]_vars /\ WF_vars(DrainNext)

\* with chunks pending, max_parallel_chunks >= 1 and in_flight_bytes within
\* the budget, the last decision scheduled at least one chunk
DrainProgress ==
    (/\ drLast # None
     /\ drLast.input.pending_chunk_ids # << >>
     /\ drLast.input.constraints.max_parallel_chunks >= 1
     /\ drLast.input.link_stats.in_flight_bytes
           <= drLast.input.constraints.max_in_flight_bytes) =>
        Len(drLast.decision.next_chunk_ids) >= 1

Occurrences(s, id) == Cardinality({ i \in 1..Len(s) : s[i] = id })

FirstAt(s, id) == CHOOSE i \in 1..Len(s) : s[i] = id /\ \A j \in 1..(i - 1) : s[j] # id

\* every id of the original list was scheduled exactly once, and the
\* scheduled ids stand in the order of the original list
EachIdOnceInOrder ==
    /\ \A i \in 1..Len(drOrig) : Occurrences(drSched, drOrig[i]) = 1
    /\ \A i, j \in 1..Len(drSched) :
          (i < j /\ drSched[i] # drSched[j]) =>
              FirstAt(drOrig, drSched[i]) < FirstAt(drOrig, drSched[j])

Distinct(s) == \A i, j \in 1..Len(s) : s[i] = s[j] => i = j

\* C30 as stated: with chunks pending, max_parallel_chunks >= 1 and
\* in_flight_bytes within the budget decide schedules at least one chunk;
\* the caller's pending list eventually becomes empty, and by then every
\* chunk id was scheduled exactly once and in the original order
C30_DrainsEachIdOnce ==
    /\ []DrainProgress
    /\ <>(drPending = << >>)
    /\ [](drPending = << >> => EachIdOnceInOrder)

\* C30: with chunks pending, max_parallel_chunks >= 1 and in_flight_bytes
\* within the budget decide schedules at least one chunk; the caller's
\* pending list eventually becomes empty; and if the ids of the original
\* list are pairwise distinct, what was scheduled followed by what is
\* pending is the original list at every round, so that at the end every
\* id was scheduled exactly once and in the original order
C30_DrainsDistinctIds ==
    /\ []DrainProgress
    /\ <>(drPending = << >>)
    /\ [](Distinct(drOrig) =>
            /\ drSched \o drPending = drOrig
            /\ drPending = << >> => EachIdOnceInOrder)

\* three distinct ids drained one per round
C30_Witness ==
    /\ drOrig = <<42, 7, 99>>
    /\ drPar = 1
    /\ drPending = << >>
    /\ drSched = drOrig
    /\ drLast.decision.next_chunk_ids = <<99>>

---------------------------------------------------------------------------
(* fill_unbiased under a random source that keeps yielding accepted bytes *)

\* a byte of the batch that passes `if byte < REJECTION_MAX`
TakeAccepted == TakeByte /\ genByte' < REJECTION_MAX

\* The loop of fill_unbiased runs on: a batch is drawn when the last one is
\* used up, its bytes are taken, the function returns once count characters
\* are there. OsRng yields bytes below REJECTION_MAX again and again.
SpecPeerFair ==
    /\ PeerInit
    /\ [][PeerNext]_vars
    /\ WF_vars(DrawBatch)
    /\ WF_vars(TakeByte)
    /\ WF_vars(Finish)
    /\ SF_vars(TakeAccepted)

\* C25: fill_unbiased(n) never holds more than n characters and returns
\* with exactly n; a batch is a request of n - emitted + 4 bytes; once the
\* n-th character is there nothing is pushed and the rest of the batch is
\* dropped; and every call eventually returns
C25_FillTerminates ==
    /\ [](genPc \in {"filling", "done", "checked"} =>
             Len(genResult) <= Count(genKind))
    /\ [](genPc \in {"done", "checked"} =>
             /\ Len(genResult) = Count(genKind)
             /\ genBatch = 0)
    /\ [][(genPc = "filling" /\ genBatch = 0 /\ genBatch' > 0) =>
             genBatch' = Count(genKind) - Len(genResult) + 4]_vars
    /\ [][(genPc = "filling" /\ Len(genResult) = Count(genKind)) =>
             (genResult' = genResult /\ genPc' = "done")]_vars
    /\ (genPc = "filling" ~> genPc = "done")

\* generate_long_peer_code has returned: fill_unbiased(8) gave 8 characters
C25_Witness ==
    /\ genPc = "done"
    /\ genKind = "long"
    /\ Len(genResult) = 8
    /\ Len(genCode) = 9
    /\ genBatch = 0

---------------------------------------------------------------------------
(* crypto.rs: what a failed open_box_payload tells its caller *)

\* payloads sealed between the two generated key pairs
SealedTexts ==
    { seal_box_payload(p, PublicOf(Secret(16, 65)), Secret(8, 64), n).val :
         p \in Plaintexts, n \in NoncePool }

\* sealed texts handed to open_box_payload: not base64, shorter than a
\* nonce, a nonce alone, a nonce and a tag that does not verify, and
\* sealed payloads
ErrTexts ==
    InvalidTexts
        \cup { to_base64(Fill(n, 171)) :
                  n \in {0, NONCE_LENGTH - 1, NONCE_LENGTH,
                         NONCE_LENGTH + BOX_OVERHEAD} }
        \cup SealedTexts

ErrInit ==
    /\ BoxInit /\ SasIdle /\ LifeIdle /\ CodecIdle /\ PeerIdle /\ WireIdle
    /\ BindIdle /\ GenIdle
    /\ ConstIdle /\ PolicyIdle /\ DrainIdle
    /\ erPc = "start" /\ erText = None /\ erFirst = None /\ erSecond = None

\* open_box_payload(sealed, sender_public_key, receiver_secret_key)
OpenFirst ==
    /\ erPc = "start"
    /\ \E text \in ErrTexts, pk \in AnyPublic, sk \in AnySecret :
          /\ erText' = text
          /\ erFirst' = [sender_public_key |-> pk, receiver_secret_key |-> sk,
                         result |-> open_box_payload(text, pk, sk)]
    /\ erPc' = "one"
    /\ UNCHANGED erSecond
    /\ UNCHANGED outsideErr

\* open_box_payload on the same sealed text with other keys
OpenSecond ==
    /\ erPc = "one"
    /\ \E pk \in AnyPublic, sk \in AnySecret :
          /\ <<pk, sk>> # <<erFirst.sender_public_key,
                            erFirst.receiver_secret_key>>
          /\ erSecond' = [sender_public_key |-> pk, receiver_secret_key |-> sk,
                          result |-> open_box_payload(erText, pk, sk)]
    /\ erPc' = "two"
    /\ UNCHANGED <<erText, erFirst>>
    /\ UNCHANGED outsideErr

ErrNext ==
    \/ OpenFirst
    \/ OpenSecond

SpecErr == ErrInit /\ [][ErrNext]_vars

\* an error made of the sealed text alone: what from_base64 says of it, or
\* one of the two fixed messages
FromTextAlone(text, r) ==
    LET data == from_base64(text)
    IN  IF ~data.ok THEN r = DecodeErr(data)
        ELSE /\ r.kind = "Encryption"
             /\ r.msg \in {"Sealed payload too short", "Decryption failed"}
             /\ r.msg = "Sealed payload too short"
                   <=> Len(data.val) < NONCE_LENGTH

\* C26: a failed open_box_payload returns an error made of the sealed text
\* alone, so it carries no key and no plaintext byte; two failed calls on
\* the same sealed text with different keys return the same error, kind
\* and message
C26_ErrorsTellNothingOfKeys ==
    /\ (erPc \in {"one", "two"} /\ ~erFirst.result.ok) =>
          FromTextAlone(erText, erFirst.result)
    /\ (erPc = "two" /\ ~erSecond.result.ok) =>
          FromTextAlone(erText, erSecond.result)
    /\ (erPc = "two" /\ ~erFirst.result.ok /\ ~erSecond.result.ok) =>
          erSecond.result = erFirst.result

\* a sealed payload opened with the all-zero sender key and then with
\* another wrong key: both calls fail, with the same error
C26_Witness ==
    /\ erPc = "two"
    /\ erText \in SealedTexts
    /\ erFirst.sender_public_key = Fill(32, 0)
    /\ erSecond.sender_public_key # Fill(32, 0)
    /\ erSecond.receiver_secret_key # erFirst.receiver_secret_key
    /\ ~erFirst.result.ok
    /\ erSecond.result = erFirst.result

---------------------------------------------------------------------------
(* sas.rs: compute_sas under rearrangements of its arguments *)

\* the 128 bytes compute_sas hands to sha256
combined(identity_a, identity_b, ephemeral_a, ephemeral_b) ==
    sort32(identity_a, identity_b) \o sort32(ephemeral_a, ephemeral_b)

BindInit ==
    /\ BoxInit /\ SasIdle /\ LifeIdle /\ CodecIdle /\ PeerIdle /\ WireIdle
    /\ GenIdle
    /\ ConstIdle /\ PolicyIdle /\ DrainIdle /\ ErrIdle
    /\ bdPc = "given"
    /\ bdKeys \in [identity_a : KeyPool, identity_b : KeyPool,
                   ephemeral_a : KeyPool, ephemeral_b : KeyPool]
    /\ bdSas = << >>
    /\ bdHashed = << >>

\* one call of compute_sas; what it hashed is kept beside what it returned
ComputeSas(at, then, ia, ib, ea, eb) ==
    /\ bdPc = at
    /\ bdSas' = Append(bdSas, compute_sas(ia, ib, ea, eb))
    /\ bdHashed' = Append(bdHashed, combined(ia, ib, ea, eb))
    /\ bdPc' = then
    /\ UNCHANGED bdKeys
    /\ UNCHANGED outsideBind

\* compute_sas(A, B, eA, eB)
ComputeGiven ==
    ComputeSas("given", "identities", bdKeys.identity_a, bdKeys.identity_b,
               bdKeys.ephemeral_a, bdKeys.ephemeral_b)

\* compute_sas(B, A, eA, eB)
ComputeIdentitiesSwapped ==
    ComputeSas("identities", "ephemerals", bdKeys.identity_b, bdKeys.identity_a,
               bdKeys.ephemeral_a, bdKeys.ephemeral_b)

\* compute_sas(A, B, eB, eA)
ComputeEphemeralsSwapped ==
    ComputeSas("ephemerals", "pairs", bdKeys.identity_a, bdKeys.identity_b,
               bdKeys.ephemeral_b, bdKeys.ephemeral_a)

\* compute_sas(eA, eB, A, B)
ComputePairsExchanged ==
    ComputeSas("pairs", "done", bdKeys.ephemeral_a, bdKeys.ephemeral_b,
               bdKeys.identity_a, bdKeys.identity_b)

BindNext ==
    \/ ComputeGiven
    \/ ComputeIdentitiesSwapped
    \/ ComputeEphemeralsSwapped
    \/ ComputePairsExchanged

SpecBind == BindInit /\ [][BindNext]_vars

\* C28: compute_sas(A, B, eA, eB) = compute_sas(B, A, eA, eB)
\* = compute_sas(A, B, eB, eA); the first 64 hashed bytes are the sorted
\* identity pair and the last 64 the sorted ephemeral pair, so that
\* exchanging the pairs changes the 128 hashed bytes whenever the sorted
\* pairs differ
C28_SasBindsBothPairs ==
    /\ Len(bdSas) >= 2 => bdSas[2] = bdSas[1]
    /\ Len(bdSas) >= 3 => bdSas[3] = bdSas[1]
    /\ Len(bdHashed) >= 1 =>
          /\ Len(bdHashed[1]) = 128
          /\ Take(bdHashed[1], 64) \in
                { bdKeys.identity_a \o bdKeys.identity_b,
                  bdKeys.identity_b \o bdKeys.identity_a }
          /\ Drop(bdHashed[1], 64) \in
                { bdKeys.ephemeral_a \o bdKeys.ephemeral_b,
                  bdKeys.ephemeral_b \o bdKeys.ephemeral_a }
    /\ Len(bdHashed) >= 3 =>
          /\ bdHashed[2] = bdHashed[1]
          /\ bdHashed[3] = bdHashed[1]
    /\ (Len(bdHashed) = 4 /\ Take(bdHashed[1], 64) # Drop(bdHashed[1], 64)) =>
          bdHashed[4] # bdHashed[1]

\* four different keys, neither pair given in sorted order: the three
\* arrangements agree and the exchanged pairs hash other bytes
C28_Witness ==
    /\ bdPc = "done"
    /\ bdKeys.identity_a = Key(200, 0, 0) /\ bdKeys.identity_b = Key(0, 0, 200)
    /\ bdKeys.ephemeral_a = Key(0, 200, 1) /\ bdKeys.ephemeral_b = Key(0, 1, 200)
    /\ bdSas[2] = bdSas[1] /\ bdSas[3] = bdSas[1]
    /\ bdHashed[4] # bdHashed[1]
    /\ bdSas[4] # bdSas[1]

---------------------------------------------------------------------------
(* crypto.rs: generate_ephemeral_keypair line by line, and the life of the
   key pair it returns.  gnSecretBytes is the storage of the local
   secret_bytes, gnSk the SecretKey value held by crypto_box, gnKp the
   returned KeyPair; gnDrawn remembers what OsRng gave. *)

\* outcomes of OsRng.fill_bytes(&mut secret_bytes)
GenSecrets ==
    AnySecret \cup { Secret(1, 2), Secret(255, 255), Secret(0, 128) }

\* bytes a later call leaves in a stack frame it reuses
Scratch == Fill(32, 170)

GenInit ==
    /\ BoxInit /\ SasIdle /\ LifeIdle /\ CodecIdle /\ PeerIdle /\ WireIdle
    /\ ConstIdle /\ PolicyIdle /\ DrainIdle /\ ErrIdle /\ BindIdle
    /\ gnPc = "ready" /\ gnFn = None
    /\ gnSecretBytes = None /\ gnSk = None /\ gnPk = None /\ gnKp = None
    /\ gnDrawn = None

\* the function is entered: let mut secret_bytes = [0u8; 32]
Enter(fn) ==
    /\ gnPc = "ready"
    /\ gnFn' = fn
    /\ gnSecretBytes' = Zero32
    /\ gnPc' = "declared"
    /\ UNCHANGED <<gnSk, gnPk, gnKp, gnDrawn>>
    /\ UNCHANGED outsideGen

EnterEphemeral == Enter("generate_ephemeral_keypair")

\* generate_identity_keypair() calls generate_ephemeral_keypair()
EnterIdentity == Enter("generate_identity_keypair")

\* OsRng.fill_bytes(&mut secret_bytes)
FillBytes ==
    /\ gnPc = "declared"
    /\ \E drawn \in GenSecrets :
          /\ gnSecretBytes' = drawn
          /\ gnDrawn' = drawn
    /\ gnPc' = "filled"
    /\ UNCHANGED <<gnFn, gnSk, gnPk, gnKp>>
    /\ UNCHANGED outsideGen

\* let sk = SecretKey::from(secret_bytes): the array is Copy, the library
\* holds its own copy
SecretKeyFrom ==
    /\ gnPc = "filled"
    /\ gnSk' = [i \in 1..32 |-> gnSecretBytes[i]]
    /\ gnPc' = "wrapped"
    /\ UNCHANGED <<gnFn, gnSecretBytes, gnPk, gnKp, gnDrawn>>
    /\ UNCHANGED outsideGen

\* let pk = sk.public_key()
PublicKey ==
    /\ gnPc = "wrapped"
    /\ gnPk' = PublicOf(gnSk)
    /\ gnPc' = "derived"
    /\ UNCHANGED <<gnFn, gnSecretBytes, gnSk, gnKp, gnDrawn>>
    /\ UNCHANGED outsideGen

\* KeyPair { public_key: *pk.as_bytes(), secret_key: secret_bytes } is
\* returned.  sk goes out of scope and crypto_box zeroizes it.  The array
\* secret_bytes has no drop glue and the function writes nothing to it:
\* its bytes stay in the dead frame, unless the build gave the local the
\* storage of the returned value, in which case there is no such buffer.
ReturnKeyPair ==
    /\ gnPc = "derived"
    /\ gnKp' = [public_key |-> gnPk, secret_key |-> gnSecretBytes]
    /\ gnSk' = Zero32
    /\ \E left \in { gnSecretBytes, None } : gnSecretBytes' = left
    /\ gnPc' = "returned"
    /\ UNCHANGED <<gnFn, gnPk, gnDrawn>>
    /\ UNCHANGED outsideGen

\* a later call happens to write over the dead frame
FrameReused ==
    /\ gnPc \in {"returned", "dropped"}
    /\ gnSecretBytes = gnDrawn
    /\ gnSecretBytes' = Scratch
    /\ UNCHANGED <<gnPc, gnFn, gnSk, gnPk, gnKp, gnDrawn>>
    /\ UNCHANGED outsideGen

\* the returned KeyPair is dropped
DropKeyPair ==
    /\ gnPc = "returned"
    /\ gnKp' = KeyPair_drop(gnKp)
    /\ gnPc' = "dropped"
    /\ UNCHANGED <<gnFn, gnSecretBytes, gnSk, gnPk, gnDrawn>>
    /\ UNCHANGED outsideGen

GenNext ==
    \/ EnterEphemeral
    \/ EnterIdentity
    \/ FillBytes
    \/ SecretKeyFrom
    \/ PublicKey
    \/ ReturnKeyPair
    \/ FrameReused
    \/ DropKeyPair

SpecGen == GenInit /\ [][GenNext]_vars

\* C29: once the generated KeyPair is dropped, none of the buffers the
\* generation wrote (the local secret_bytes, the SecretKey handed to the
\* library, the secret_key field) holds the secret bytes
C29_NoStaleSecretCopy ==
    gnPc = "dropped" =>
        /\ gnSecretBytes # gnDrawn
        /\ gnSk # gnDrawn
        /\ gnKp.secret_key # gnDrawn

====
